---- MODULE Spec2Model ----
(***************************************************************************)
(* Model of the tailoresume backend: the schema compiler                   *)
(* (services/resume_schema.py), resume creation and its ATS score          *)
(* (services/resume_generator.py), the stand-alone validator               *)
(* (services/ats_validator.py) and the collaborator-backed analysis        *)
(* pipeline (services/ai_service.py, api/job_analysis.py).                 *)
(*                                                                         *)
(* Conventions.  A nullable column or a JSON scalar is a sequence of       *)
(* length at most one: <<>> is None / null, <<v>> is the value v.  A JSON  *)
(* object (a Python dict) is a function from its keys to its values, so    *)
(* "key in d" is  key \in DOMAIN d.  A JSON array is a sequence.  A date   *)
(* is a record [year, month, day]; isoformat() renders it as the tuple     *)
(* <<year, month, day>>, the three numbers in the order of "YYYY-MM-DD".   *)
(***************************************************************************)
EXTENDS Integers, Sequences, FiniteSets, TLC

VARIABLES db,        \* the tables: users, skills, work_experiences, ..., resumes
          req,       \* the create-resume request being served
          resp,      \* the response to it
          pc,        \* position of the create-resume request
          scoreIn,   \* schema handed to _calculate_ats_score
          scoreOut,  \* its (score, feedback) result
          aiReq,     \* the job-analysis request being served: endpoint and user
          aiPc,      \* position of its handler
          job_analysis,         \* what analyze_job_description returned
          user_databank,        \* what _get_complete_user_databank returned
          coverage_analysis,    \* what validate_databank_coverage returned
          gap_recommendations,  \* what identify_databank_gaps returned
          resume_result,        \* what generate_anti_hallucination_resume returned
          aiResp,    \* the response to the job-analysis request
          calls,     \* the requests sent to the collaborator, with what came back
          recLog,    \* the profile operations served so far, each with its status
          compiled,  \* the outputs of successive runs of the schema compiler
          rescored,  \* the result of a second scoring call on scoreIn
          schema_json,  \* the text handed to ATSValidator.validate_schema
          validation,   \* what validate_schema did with it
          inflight   \* the create_skill requests being served at the same time

resumeVars == <<db, req, resp, pc>>
scoreVars == <<scoreIn, scoreOut, rescored, schema_json, validation>>
recVars == <<recLog, inflight>>
compileVars == <<compiled>>
aiVars == <<aiReq, aiPc, job_analysis, user_databank, coverage_analysis, gap_recommendations,
            resume_result, aiResp, calls>>
vars == <<resumeVars, recVars, compileVars, scoreVars, aiVars>>

(***************************************************************************)
(* Bounds                                                                  *)
(***************************************************************************)
\* largest number of profile operations served in one run
MaxOps == 2

\* largest number of record ids one create-resume request selects, over all sections
MaxSelected == 2

(***************************************************************************)
(* Python values                                                           *)
(***************************************************************************)
None == <<>>
Some(v) == <<v>>

\* bool(x) for an optional string: None and "" are falsy
TruthyStr(o) == Len(o) > 0 /\ o[1] # ""
\* bool(x) for an optional integer: None and 0 are falsy
TruthyInt(o) == Len(o) > 0 /\ o[1] # 0
\* bool(x) for an optional date: only None is falsy
TruthyDate(o) == Len(o) > 0
\* bool(x) for a list (or None): empty is falsy
TruthyList(l) == Len(l) > 0

\* d[k] = v
Put(d, k, v) == (k :> v) @@ d
\* d.get(k), with None as the default
Get(d, k) == IF k \in DOMAIN d THEN d[k] ELSE None
\* x or y  on optional strings
OrStr(x, y) == IF TruthyStr(x) THEN x ELSE y

\* date.isoformat()
isoformat(d) == <<d.year, d.month, d.day>>

Sections == {"skills", "workExperience", "education", "projects", "certifications", "knowsLanguage"}

(***************************************************************************)
(* Text decoding used by the compiler                                      *)
(***************************************************************************)
\* stored texts of the list-or-string columns
JsonListText == "[\"led team\",\"shipped v2\"]"
JsonScalarText == "42"
PlainText == "Led the platform team"
CommaText == "py,django"

\* json.loads(s): ok = FALSE is json.JSONDecodeError
JsonLoads(s) ==
    CASE s = JsonListText   -> [ok |-> TRUE,  isList |-> TRUE,  list |-> <<"led team", "shipped v2">>]
      [] s = JsonScalarText -> [ok |-> TRUE,  isList |-> FALSE, list |-> <<>>]
      [] OTHER              -> [ok |-> FALSE, isList |-> FALSE, list |-> <<>>]

\* s.split(",")
SplitComma(s) ==
    CASE s = CommaText      -> <<"py", "django">>
      [] s = JsonListText   -> <<"[\"led team\"", "\"shipped v2\"]">>
      [] OTHER              -> <<s>>

\* the try/except around json.loads for a free-text column: the decoded
\* list, else the text itself as a one-element list
ListOrSingle(text) ==
    LET j == JsonLoads(text)
    IN  IF j.ok /\ j.isList THEN j.list ELSE <<text>>

\* a keyword column read with no decoding attempt
ListOrSplit_SplitOnly(text) == SplitComma(text)

\* the same for a keyword column: the decoded list, else the comma split
ListOrSplit(text) ==
    LET j == JsonLoads(text)
    IN  IF j.ok /\ j.isList THEN j.list ELSE SplitComma(text)

(***************************************************************************)
(* The tables                                                              *)
(***************************************************************************)
D2019 == [year |-> 2019, month |-> 1, day |-> 1]
D2021 == [year |-> 2021, month |-> 6, day |-> 30]

UserIds == {1, 2, 3}

\* rows of the users table (models.User); email and username are set at
\* registration, every other column is nullable.  User 1 has records of
\* every kind, user 2 only skills and educations, user 3 none and no key
\* for the provider they prefer
UserRows ==
    << [id |-> 1, email |-> Some("ada@example.org"), username |-> Some("ada"),
        full_name |-> Some("Ada Lovelace"), phone |-> Some("+44 20 7946 0000"),
        website |-> Some("https://ada.example.org"),
        linkedin |-> Some("https://linkedin.com/in/ada"), github |-> None, twitter |-> None,
        city |-> Some("London"), state |-> None, country |-> Some("UK"), postal_code |-> None,
        summary |-> Some("Engineer and analyst"),
        preferred_ai_provider |-> None, api_key_openai |-> Some("sk-ada"),
        api_key_anthropic |-> None, api_key_google |-> None],
       [id |-> 2, email |-> Some("bob@example.org"), username |-> Some("bob"),
        full_name |-> None, phone |-> None, website |-> None,
        linkedin |-> None, github |-> None, twitter |-> None,
        city |-> None, state |-> None, country |-> None, postal_code |-> Some("10115"),
        summary |-> None,
        preferred_ai_provider |-> Some("anthropic"), api_key_openai |-> None,
        api_key_anthropic |-> Some("ak-bob"), api_key_google |-> None],
       [id |-> 3, email |-> Some("cy@example.org"), username |-> Some("cy"),
        full_name |-> Some("Cy Young"), phone |-> None, website |-> None,
        linkedin |-> None, github |-> Some("https://github.com/cy"), twitter |-> None,
        city |-> None, state |-> None, country |-> None, postal_code |-> None,
        summary |-> Some("Pitcher"),
        preferred_ai_provider |-> Some("google"), api_key_openai |-> Some("sk-cy"),
        api_key_anthropic |-> None, api_key_google |-> None] >>

\* models.Skill; the keywords of row 3 were stored as a JSON-encoded list
SkillRows ==
    << [id |-> 1, user_id |-> 1, name |-> Some("Python"), category |-> Some("language"),
        experience_level |-> Some("Expert"), years_of_experience |-> Some(5),
        details |-> Some("Data pipelines"), keywords |-> Some(CommaText)],
       [id |-> 2, user_id |-> 2, name |-> Some("Go"), category |-> None,
        experience_level |-> Some("Beginner"), years_of_experience |-> Some(0),
        details |-> None, keywords |-> None],
       [id |-> 3, user_id |-> 1, name |-> Some("SQL"), category |-> Some("language"),
        experience_level |-> None, years_of_experience |-> None,
        details |-> None, keywords |-> Some(JsonListText)] >>

\* models.WorkExperience; row 2 is a current position that still carries an
\* end date (update_work_experience with only is_current set leaves it there)
WorkExperienceRows ==
    << [id |-> 1, user_id |-> 1, company |-> Some("Acme"), job_title |-> Some("Engineer"),
        start_date |-> Some(D2019), end_date |-> None, is_current |-> TRUE,
        city |-> Some("London"), state |-> None, country |-> None,
        description |-> Some("Built the platform"),
        responsibilities |-> Some(JsonListText), achievements |-> Some(PlainText)],
       [id |-> 2, user_id |-> 1, company |-> Some("Initech"), job_title |-> Some("Analyst"),
        start_date |-> Some(D2019), end_date |-> Some(D2021), is_current |-> TRUE,
        city |-> None, state |-> None, country |-> None,
        description |-> None, responsibilities |-> None, achievements |-> None],
       [id |-> 3, user_id |-> 1, company |-> Some("Globex"), job_title |-> Some("Operator"),
        start_date |-> Some(D2019), end_date |-> Some(D2021), is_current |-> FALSE,
        city |-> None, state |-> None, country |-> None,
        description |-> None, responsibilities |-> Some(PlainText),
        achievements |-> Some(JsonScalarText)] >>

\* models.Education
EducationRows ==
    << [id |-> 1, user_id |-> 1, institution |-> Some("UCL"), degree |-> Some("BSc"),
        field_of_study |-> Some("Mathematics"),
        start_date |-> Some(D2019), end_date |-> Some(D2021), is_current |-> FALSE,
        city |-> None, state |-> None, country |-> None,
        gpa |-> Some("3.9"), achievements |-> Some(JsonListText), activities |-> None],
       [id |-> 2, user_id |-> 2, institution |-> Some("MIT"), degree |-> Some("MSc"),
        field_of_study |-> Some("Physics"),
        start_date |-> Some(D2019), end_date |-> Some(D2021), is_current |-> TRUE,
        city |-> None, state |-> Some("MA"), country |-> Some("US"),
        gpa |-> None, achievements |-> None, activities |-> Some(PlainText)] >>

\* models.Project
ProjectRows ==
    << [id |-> 1, user_id |-> 1, name |-> Some("Engine"), description |-> Some("Analytical engine"),
        url |-> None, start_date |-> None, end_date |-> Some(D2021), is_current |-> TRUE,
        technologies |-> Some(CommaText)],
       [id |-> 2, user_id |-> 1, name |-> Some("Notes"), description |-> Some("Annotated notes"),
        url |-> Some("https://notes.example.org"),
        start_date |-> Some(D2019), end_date |-> Some(D2021), is_current |-> FALSE,
        technologies |-> Some(JsonListText)] >>

\* models.Certification; row 2 has lost its issue date
CertificationRows ==
    << [id |-> 1, user_id |-> 1, name |-> Some("CKA"), issuing_organization |-> Some("CNCF"),
        issue_date |-> Some(D2019), expiration_date |-> Some(D2021),
        credential_id |-> None, credential_url |-> None],
       [id |-> 2, user_id |-> 1, name |-> Some("PMP"), issuing_organization |-> Some("PMI"),
        issue_date |-> None, expiration_date |-> None,
        credential_id |-> Some("PMP-7"), credential_url |-> None] >>

\* models.Language
LanguageRows ==
    << [id |-> 1, user_id |-> 1, name |-> Some("French"), proficiency |-> Some("Fluent")] >>

Tables ==
    [users |-> UserRows, skills |-> SkillRows, workExperience |-> WorkExperienceRows,
     education |-> EducationRows, projects |-> ProjectRows,
     certifications |-> CertificationRows, knowsLanguage |-> LanguageRows,
     resumes |-> <<>>]


(***************************************************************************)
(* Schema compiler: resume_schema.generate_jsonld_schema                   *)
(***************************************************************************)
\* d[k] = v when c holds, else d unchanged
PutIf(c, d, k, v) == IF c THEN Put(d, k, v) ELSE d

\* the PostalAddress object of a user, work experience or education
AddressOf(r, withPostal) ==
    LET a0 == "@type" :> Some("PostalAddress")
        a1 == PutIf(TruthyStr(r.city), a0, "addressLocality", r.city)
        a2 == PutIf(TruthyStr(r.state), a1, "addressRegion", r.state)
        a3 == PutIf(TruthyStr(r.country), a2, "addressCountry", r.country)
    IN  IF withPostal THEN PutIf(TruthyStr(r.postal_code), a3, "postalCode", r.postal_code) ELSE a3

ProfilePage(name, url) == ("@type" :> Some("ProfilePage")) @@ [name |-> Some(name), url |-> url]

\* social_profiles with a profile page for the website as well
SocialProfiles_WithWebsite(user) ==
    (IF TruthyStr(user.website) THEN <<ProfilePage("Website", user.website)>> ELSE <<>>)
    \o (IF TruthyStr(user.linkedin) THEN <<ProfilePage("LinkedIn", user.linkedin)>> ELSE <<>>)
    \o (IF TruthyStr(user.github) THEN <<ProfilePage("GitHub", user.github)>> ELSE <<>>)
    \o (IF TruthyStr(user.twitter) THEN <<ProfilePage("Twitter", user.twitter)>> ELSE <<>>)

\* social_profiles
SocialProfiles(user) ==
    (IF TruthyStr(user.linkedin) THEN <<ProfilePage("LinkedIn", user.linkedin)>> ELSE <<>>)
    \o (IF TruthyStr(user.github) THEN <<ProfilePage("GitHub", user.github)>> ELSE <<>>)
    \o (IF TruthyStr(user.twitter) THEN <<ProfilePage("Twitter", user.twitter)>> ELSE <<>>)

\* schema["person"]
PersonObj(user) ==
    LET p0 == ("@type" :> Some("Person"))
              @@ [name |-> OrStr(user.full_name, user.username), email |-> user.email]
        p1 == PutIf(TruthyStr(user.phone), p0, "telephone", user.phone)
        p2 == PutIf(TruthyStr(user.website), p1, "url", user.website)
        p3 == PutIf(TruthyStr(user.city) \/ TruthyStr(user.state) \/ TruthyStr(user.country)
                      \/ TruthyStr(user.postal_code),
                    p2, "address", AddressOf(user, TRUE))
    IN  PutIf(TruthyList(SocialProfiles(user)), p3, "sameAs", SocialProfiles(user))

\* the Place object holding an address
LocationOf(r) == ("@type" :> Some("Place")) @@ [address |-> AddressOf(r, FALSE)]

\* a location guard that lets every record through
HasLocation_Always(r) == TRUE

HasLocation(r) == TruthyStr(r.city) \/ TruthyStr(r.state) \/ TruthyStr(r.country)

\* the endDate guard without its is_current test
EmitsEndDate_AnyStoredEndDate(r) == TruthyDate(r.end_date)

\* the endDate guard: "if not x.is_current and x.end_date"
EmitsEndDate(r) == ~r.is_current /\ TruthyDate(r.end_date)

SkillObj(skill) ==
    LET o0 == ("@type" :> Some("DefinedTerm")) @@ [name |-> skill.name, termCode |-> skill.category]
        o1 == PutIf(TruthyStr(skill.experience_level), o0, "competencyLevel", skill.experience_level)
        o2 == PutIf(TruthyInt(skill.years_of_experience), o1, "experienceYears", skill.years_of_experience)
    IN  PutIf(TruthyStr(skill.keywords), o2, "keywords",
              IF TruthyStr(skill.keywords) THEN SplitComma(skill.keywords[1]) ELSE <<>>)

WorkExperienceObj(exp) ==
    LET o0 == ("@type" :> Some("OrganizationRole"))
              @@ [name |-> exp.job_title, startDate |-> Some(isoformat(exp.start_date[1])),
                  memberOf |-> ("@type" :> Some("Organization")) @@ [name |-> exp.company]]
        o1 == PutIf(EmitsEndDate(exp), o0, "endDate",
                    IF TruthyDate(exp.end_date) THEN Some(isoformat(exp.end_date[1])) ELSE None)
        o2 == PutIf(HasLocation(exp), o1, "location", LocationOf(exp))
        o3 == PutIf(TruthyStr(exp.description), o2, "description", exp.description)
        o4 == PutIf(TruthyStr(exp.responsibilities), o3, "responsibilities",
                    IF TruthyStr(exp.responsibilities) THEN ListOrSingle(exp.responsibilities[1]) ELSE <<>>)
    IN  PutIf(TruthyStr(exp.achievements), o4, "achievements",
              IF TruthyStr(exp.achievements) THEN ListOrSingle(exp.achievements[1]) ELSE <<>>)

EducationObj(edu) ==
    LET o0 == ("@type" :> Some("EducationalOccupationalCredential"))
              @@ [name |-> edu.degree, credentialCategory |-> edu.field_of_study,
                  startDate |-> Some(isoformat(edu.start_date[1])),
                  educationalInstitution |->
                      ("@type" :> Some("EducationalOrganization")) @@ [name |-> edu.institution]]
        o1 == PutIf(EmitsEndDate(edu), o0, "endDate",
                    IF TruthyDate(edu.end_date) THEN Some(isoformat(edu.end_date[1])) ELSE None)
        o2 == PutIf(HasLocation(edu), o1, "location", LocationOf(edu))
        o3 == PutIf(TruthyStr(edu.gpa), o2, "gpa", edu.gpa)
        o4 == PutIf(TruthyStr(edu.achievements), o3, "achievements",
                    IF TruthyStr(edu.achievements) THEN ListOrSingle(edu.achievements[1]) ELSE <<>>)
    IN  PutIf(TruthyStr(edu.activities), o4, "activities",
              IF TruthyStr(edu.activities) THEN ListOrSingle(edu.activities[1]) ELSE <<>>)

ProjectObj(project) ==
    LET o0 == ("@type" :> Some("CreativeWork"))
              @@ [name |-> project.name, description |-> project.description]
        o1 == PutIf(TruthyStr(project.url), o0, "url", project.url)
        o2 == PutIf(TruthyDate(project.start_date), o1, "startDate",
                    IF TruthyDate(project.start_date) THEN Some(isoformat(project.start_date[1])) ELSE None)
        o3 == PutIf(EmitsEndDate(project), o2, "endDate",
                    IF TruthyDate(project.end_date) THEN Some(isoformat(project.end_date[1])) ELSE None)
    IN  PutIf(TruthyStr(project.technologies), o3, "keywords",
              IF TruthyStr(project.technologies) THEN ListOrSplit(project.technologies[1]) ELSE <<>>)

CertificationObj(cert) ==
    LET o0 == ("@type" :> Some("EducationalOccupationalCredential"))
              @@ [name |-> cert.name, credentialCategory |-> Some("certification"),
                  validFrom |-> Some(isoformat(cert.issue_date[1])),
                  educationalInstitution |->
                      ("@type" :> Some("Organization")) @@ [name |-> cert.issuing_organization]]
        o1 == PutIf(TruthyDate(cert.expiration_date), o0, "validUntil",
                    IF TruthyDate(cert.expiration_date) THEN Some(isoformat(cert.expiration_date[1])) ELSE None)
        o2 == PutIf(TruthyStr(cert.credential_id), o1, "credentialId", cert.credential_id)
    IN  PutIf(TruthyStr(cert.credential_url), o2, "url", cert.credential_url)

LanguageObj(lang) ==
    ("@type" :> Some("Language")) @@ [name |-> lang.name, proficiencyLevel |-> lang.proficiency]

\* the object compiled for one record of a section
SectionObj(section, r) ==
    CASE section = "skills"         -> SkillObj(r)
      [] section = "workExperience" -> WorkExperienceObj(r)
      [] section = "education"      -> EducationObj(r)
      [] section = "projects"       -> ProjectObj(r)
      [] section = "certifications" -> CertificationObj(r)
      [] section = "knowsLanguage"  -> LanguageObj(r)

\* the section guard without its "and xs" test
SectionIncluded_FlagOnly(include, records, section) == include[section]

\* the "if resume.include_x and xs" guard of a section
SectionIncluded(include, records, section) == include[section] /\ TruthyList(records[section])

\* None.isoformat(): the compiler raises AttributeError on a work experience
\* or education without start date and on a certification without issue date
CompileRaises(include, records) ==
    \/ /\ SectionIncluded(include, records, "workExperience")
       /\ \E i \in DOMAIN records.workExperience : records.workExperience[i].start_date = None
    \/ /\ SectionIncluded(include, records, "education")
       /\ \E i \in DOMAIN records.education : records.education[i].start_date = None
    \/ /\ SectionIncluded(include, records, "certifications")
       /\ \E i \in DOMAIN records.certifications : records.certifications[i].issue_date = None

\* schema with the section array added when the section is included
AddSection(schema, include, records, section) ==
    PutIf(SectionIncluded(include, records, section), schema, section,
          [i \in DOMAIN records[section] |-> SectionObj(section, records[section][i])])

\* a compiler that stamps dateCreated with the modification time as well
generate_jsonld_schema_CreatedIsModified(user, res, include, records) ==
    LET s0 == ("@context" :> Some("https://schema.org/")) @@ ("@type" :> Some("Resume"))
              @@ [identifier |-> Some(<<"resume-", res.id>>),
                  dateCreated |-> IF Len(res.last_modified) > 0 THEN res.last_modified ELSE res.created_at,
                  dateModified |-> IF Len(res.last_modified) > 0 THEN res.last_modified ELSE res.created_at,
                  name |-> res.title,
                  person |-> PersonObj(user)]
        s1 == PutIf(TruthyStr(user.summary) /\ res.include_summary, s0, "description", user.summary)
        s2 == AddSection(s1, include, records, "skills")
        s3 == AddSection(s2, include, records, "workExperience")
        s4 == AddSection(s3, include, records, "education")
        s5 == AddSection(s4, include, records, "projects")
        s6 == AddSection(s5, include, records, "certifications")
    IN  AddSection(s6, include, records, "knowsLanguage")

\* generate_jsonld_schema(user, resume, skills, work_experiences, ...): the
\* returned dict; include holds resume.include_* and records the six lists
generate_jsonld_schema(user, res, include, records) ==
    LET s0 == ("@context" :> Some("https://schema.org/")) @@ ("@type" :> Some("Resume"))
              @@ [identifier |-> Some(<<"resume-", res.id>>),
                  dateCreated |-> res.created_at,
                  dateModified |-> IF Len(res.last_modified) > 0 THEN res.last_modified ELSE res.created_at,
                  name |-> res.title,
                  person |-> PersonObj(user)]
        s1 == PutIf(TruthyStr(user.summary) /\ res.include_summary, s0, "description", user.summary)
        s2 == AddSection(s1, include, records, "skills")
        s3 == AddSection(s2, include, records, "workExperience")
        s4 == AddSection(s3, include, records, "education")
        s5 == AddSection(s4, include, records, "projects")
        s6 == AddSection(s5, include, records, "certifications")
    IN  AddSection(s6, include, records, "knowsLanguage")


(***************************************************************************)
(* ATS score: ResumeGenerator._calculate_ats_score                         *)
(***************************************************************************)
PositiveFeedback == "Great job! Your resume has excellent ATS compatibility."

Max(a, b) == IF a >= b THEN a ELSE b
Min(a, b) == IF a <= b THEN a ELSE b

\* jsonld_schema.get("person", {})
PersonOf(schema) == IF "person" \in DOMAIN schema THEN schema["person"] ELSE <<>>

\* the checks with the weights ATSValidator.validate_schema uses for a
\* missing email (15) and a missing education section (15)
AtsChecks_ValidatorWeights(schema) ==
    LET person == PersonOf(schema)
    IN  << [hit |-> ~TruthyStr(Get(schema, "@context")), points |-> 10, msg |-> "Missing schema context"],
           [hit |-> ~TruthyStr(Get(schema, "@type")), points |-> 10, msg |-> "Missing schema type"],
           [hit |-> ~TruthyStr(Get(person, "name")), points |-> 15, msg |-> "Missing person name"],
           [hit |-> ~TruthyStr(Get(person, "email")), points |-> 15, msg |-> "Missing email contact"],
           [hit |-> ~TruthyStr(Get(person, "telephone")), points |-> 5, msg |-> "Missing phone contact"],
           [hit |-> ~TruthyList(Get(person, "sameAs")), points |-> 5,
            msg |-> "No professional profiles linked (LinkedIn, GitHub, etc.)"],
           [hit |-> ~TruthyStr(Get(schema, "description")), points |-> 5,
            msg |-> "No professional summary included"],
           [hit |-> ~TruthyList(Get(schema, "skills")) \/ Len(Get(schema, "skills")) = 0,
            points |-> 15, msg |-> "No skills listed"],
           [hit |-> ~TruthyList(Get(schema, "workExperience")) \/ Len(Get(schema, "workExperience")) = 0,
            points |-> 15, msg |-> "No work experience listed"],
           [hit |-> ~TruthyList(Get(schema, "education")) \/ Len(Get(schema, "education")) = 0,
            points |-> 15, msg |-> "No education history listed"] >>

\* the ten "if not ...: score -= n; feedback.append(msg)" statements, in
\* program order
AtsChecks(schema) ==
    LET person == PersonOf(schema)
    IN  << [hit |-> ~TruthyStr(Get(schema, "@context")), points |-> 10, msg |-> "Missing schema context"],
           [hit |-> ~TruthyStr(Get(schema, "@type")), points |-> 10, msg |-> "Missing schema type"],
           [hit |-> ~TruthyStr(Get(person, "name")), points |-> 15, msg |-> "Missing person name"],
           [hit |-> ~TruthyStr(Get(person, "email")), points |-> 10, msg |-> "Missing email contact"],
           [hit |-> ~TruthyStr(Get(person, "telephone")), points |-> 5, msg |-> "Missing phone contact"],
           [hit |-> ~TruthyList(Get(person, "sameAs")), points |-> 5,
            msg |-> "No professional profiles linked (LinkedIn, GitHub, etc.)"],
           [hit |-> ~TruthyStr(Get(schema, "description")), points |-> 5,
            msg |-> "No professional summary included"],
           [hit |-> ~TruthyList(Get(schema, "skills")) \/ Len(Get(schema, "skills")) = 0,
            points |-> 15, msg |-> "No skills listed"],
           [hit |-> ~TruthyList(Get(schema, "workExperience")) \/ Len(Get(schema, "workExperience")) = 0,
            points |-> 15, msg |-> "No work experience listed"],
           [hit |-> ~TruthyList(Get(schema, "education")) \/ Len(Get(schema, "education")) = 0,
            points |-> 10, msg |-> "No education history listed"] >>

\* runs the checks putting each new message in front of the earlier ones
RECURSIVE ApplyChecks_NewestFirst(_, _, _)
ApplyChecks_NewestFirst(checks, score, feedback) ==
    IF checks = <<>> THEN [score |-> score, feedback |-> feedback]
    ELSE IF Head(checks).hit
         THEN ApplyChecks_NewestFirst(Tail(checks), score - Head(checks).points,
                                      <<Head(checks).msg>> \o feedback)
         ELSE ApplyChecks_NewestFirst(Tail(checks), score, feedback)

\* runs the checks in order from (score, feedback)
RECURSIVE ApplyChecks(_, _, _)
ApplyChecks(checks, score, feedback) ==
    IF checks = <<>> THEN [score |-> score, feedback |-> feedback]
    ELSE IF Head(checks).hit
         THEN ApplyChecks(Tail(checks), score - Head(checks).points, Append(feedback, Head(checks).msg))
         ELSE ApplyChecks(Tail(checks), score, feedback)

\* the score without the "if not feedback" statement
_calculate_ats_score_NoPositiveMessage(jsonld_schema, job_description) ==
    LET r == ApplyChecks(AtsChecks(jsonld_schema), 100, <<>>)
    IN  [score |-> Max(0, Min(100, r.score)), feedback |-> r.feedback]

\* a score that also takes 5 points for an empty job description
_calculate_ats_score_JobAware(jsonld_schema, job_description) ==
    LET r == ApplyChecks(AtsChecks(jsonld_schema), 100, <<>>)
        s == IF job_description = "" THEN r.score - 5 ELSE r.score
        f == IF job_description = "" THEN Append(r.feedback, "No job description given") ELSE r.feedback
    IN  [score |-> Max(0, Min(100, s)),
         feedback |-> IF f = <<>> THEN <<PositiveFeedback>> ELSE f]

\* _calculate_ats_score(jsonld_schema, job_description); feedback is the
\* list of lines of the returned "\n".join(feedback)
_calculate_ats_score(jsonld_schema, job_description) ==
    LET r == ApplyChecks(AtsChecks(jsonld_schema), 100, <<>>)
    IN  [score |-> Max(0, Min(100, r.score)),
         feedback |-> IF r.feedback = <<>> THEN <<PositiveFeedback>> ELSE r.feedback]

\* ATSValidator.recommended_properties of the entries of a section
recommended_properties ==
    [workExperience |-> {"startDate", "endDate", "description", "responsibilities"},
     education |-> {"startDate", "endDate", "credentialCategory"}]

(***************************************************************************)
(* Resume creation: api/resumes.create_resume, ResumeGenerator.create_resume *)
(***************************************************************************)
ValidFormats == {"pdf", "word", "latex", "html"}

\* json.dumps(x): the JSON text of x
json_dumps(x) == [json |-> x]

\* the query without the user_id filter
QueryOwned_AnyUser(table, user_id, ids) ==
    SelectSeq(table, LAMBDA r : r.id \in ids)

\* db.query(T).filter(T.user_id == user_id, T.id.in_(ids)).all()
QueryOwned(table, user_id, ids) ==
    SelectSeq(table, LAMBDA r : r.user_id = user_id /\ r.id \in ids)

\* db.query(User).filter(User.id == user_id).first(), as a list of 0 or 1 rows
QueryUser(table, user_id) == SelectSeq(table, LAMBDA u : u.id = user_id)

\* the six "if selected_x_ids and include_x: xs = query" statements
SelectedRecords(tables, r) ==
    [s \in Sections |->
        IF r.selected[s] # {} /\ r.include[s]
        THEN QueryOwned(tables[s], r.user_id, r.selected[s])
        ELSE <<>>]

IdsOf(rows) == [i \in DOMAIN rows |-> rows[i].id]

\* _generate_resume_content
_generate_resume_content(res, jsonld_schema) ==
    IF res.format = "html"
    THEN [html_title |-> res.title, ld_json |-> json_dumps(jsonld_schema)]
    ELSE IF res.format \in {"pdf", "word", "latex"}
         THEN json_dumps([format |-> res.format, schema |-> jsonld_schema, template |-> "default"])
         ELSE json_dumps(jsonld_schema)

\* the Resume row ResumeGenerator.create_resume commits
NewResumeRow(tables, r) ==
    LET user == QueryUser(tables.users, r.user_id)[1]
        records == SelectedRecords(tables, r)
        row0 == [id |-> Len(tables.resumes) + 1, user_id |-> r.user_id, title |-> r.title,
                 job_description |-> r.job_description, format |-> r.format,
                 created_at |-> Some(r.now), last_modified |-> Some(r.now),
                 include_summary |-> r.include_summary, include |-> r.include,
                 assoc |-> [s \in Sections |-> IdsOf(records[s])]]
        jsonld_schema == generate_jsonld_schema(user, row0, r.include, records)
        ats == _calculate_ats_score(jsonld_schema, r.job_description)
    IN  row0 @@ [schema_jsonld |-> json_dumps(jsonld_schema),
                 content |-> _generate_resume_content(row0, jsonld_schema),
                 ats_score |-> ats.score, ats_feedback |-> ats.feedback]

\* requests: every choice of flags, at most MaxSelected selected ids
TableIds(rows) == {rows[i].id : i \in DOMAIN rows}

SelectedTotal(sel) ==
    Cardinality(sel.skills) + Cardinality(sel.workExperience) + Cardinality(sel.education)
    + Cardinality(sel.projects) + Cardinality(sel.certifications) + Cardinality(sel.knowsLanguage)

Selections ==
    {sel \in [skills : SUBSET TableIds(SkillRows),
              workExperience : SUBSET TableIds(WorkExperienceRows),
              education : SUBSET TableIds(EducationRows),
              projects : SUBSET TableIds(ProjectRows),
              certifications : SUBSET TableIds(CertificationRows),
              knowsLanguage : SUBSET TableIds(LanguageRows)] :
        SelectedTotal(sel) <= MaxSelected}

Requests ==
    [user_id : UserIds, format : {"pdf", "txt"}, title : {Some("Tailored resume")},
     job_description : {"Senior engineer"}, now : {"2024-05-01T10:00:00"},
     include_summary : BOOLEAN, include : [Sections -> BOOLEAN], selected : Selections]

NoRequest == [user_id |-> 0]
NoResponse == [status |-> 0]
NoSchema == <<>>
NoScore == [score |-> -1, feedback |-> <<>>]
NoValidation == <<>>

\* a JSON value received from the collaborator, tagged with its Python type
JDict(d) == [t |-> "dict", v |-> d]
JList(l) == [t |-> "list", v |-> l]
JNull == [t |-> "NoneType", v |-> <<>>]
NoText == [valid |-> FALSE, json |-> JNull]

\* no create-resume request, no scoring call, no job-analysis request
ResumeIdle == db = Tables /\ req = NoRequest /\ resp = NoResponse /\ pc = "idle"
ScoreIdle ==
    /\ scoreIn = NoSchema /\ scoreOut = NoScore /\ rescored = NoScore
    /\ schema_json = NoText /\ validation = NoValidation
RecordsIdle == recLog = <<>> /\ inflight = <<>>
CompileIdle == compiled = <<>>
AiIdle ==
    /\ aiReq = [endpoint |-> "none", user_id |-> 0]
    /\ aiPc = "idle"
    /\ job_analysis = JNull
    /\ user_databank = <<>>
    /\ coverage_analysis = <<>>
    /\ gap_recommendations = <<>>
    /\ resume_result = <<>>
    /\ aiResp = NoResponse
    /\ calls = <<>>

Init ==
    /\ db = Tables
    /\ req \in Requests
    /\ resp = NoResponse
    /\ pc = "start"
    /\ RecordsIdle
    /\ CompileIdle
    /\ ScoreIdle
    /\ AiIdle

\* the Resume row as constructed, added and flushed, before anything is selected
FlushedResume(tables, r) ==
    [id |-> Len(tables.resumes) + 1, user_id |-> r.user_id, title |-> r.title,
     job_description |-> r.job_description, format |-> r.format,
     created_at |-> Some(r.now), last_modified |-> Some(r.now), content |-> "",
     include_summary |-> r.include_summary, include |-> r.include]

\* a session that keeps what was flushed although commit was never reached
SessionClosed_KeepsFlushed(stored, flushed, committed) == flushed

\* get_db: the session is closed when the request ends; what it flushed is
\* stored only when commit was reached
SessionClosed(stored, flushed, committed) == IF committed THEN flushed ELSE stored

\* POST /resumes: 400 on an unknown format; 500 when the generator raises
\* (unknown user, or the compiler raising), the session being closed without
\* commit; else the row is committed and returned
CreateResume ==
    /\ pc = "start"
    /\ pc' = "done"
    /\ IF req.format \notin ValidFormats
       THEN /\ resp' = [status |-> 400]
            /\ db' = db
       ELSE IF QueryUser(db.users, req.user_id) = <<>>
            THEN /\ resp' = [status |-> 500]
                 /\ db' = db
            ELSE IF CompileRaises(req.include, SelectedRecords(db, req))
            THEN /\ resp' = [status |-> 500]
                 /\ db' = SessionClosed(db, [db EXCEPT !.resumes =
                                                Append(@, FlushedResume(db, req))], FALSE)
            ELSE /\ db' = SessionClosed(db, [db EXCEPT !.resumes =
                                                Append(@, NewResumeRow(db, req))], TRUE)
                 /\ resp' = [status |-> 200, id |-> Len(db.resumes) + 1]
    /\ UNCHANGED <<req, recVars, compileVars, scoreVars, aiVars>>

Next == CreateResume

Spec == Init /\ [][Next]_vars


(***************************************************************************)
(* The compiler on its own, run repeatedly on one input                    *)
(***************************************************************************)
MaxRuns == 2

\* resume.last_modified at the time of a run: unset, the creation time, later
LastModifiedValues == {None, Some("2024-05-01T10:00:00"), Some("2024-06-01T09:30:00")}

\* the Resume object handed to generate_jsonld_schema, with the given
\* last_modified
ResumeArgument(tables, r, last_modified) ==
    [id |-> Len(tables.resumes) + 1, user_id |-> r.user_id, title |-> r.title,
     job_description |-> r.job_description, format |-> r.format,
     created_at |-> Some(r.now), last_modified |-> last_modified,
     include_summary |-> r.include_summary, include |-> r.include,
     assoc |-> [s \in Sections |-> IdsOf(SelectedRecords(tables, r)[s])]]

\* the inputs of the runs: any user and selection, every section enabled or
\* only skills and work experience
CompileRequests ==
    {r \in Requests :
        /\ r.format = "pdf"
        /\ r.include_summary
        /\ \/ \A s \in Sections : r.include[s]
           \/ \A s \in Sections : r.include[s] <=> s \in {"skills", "workExperience"}}

InitCompile ==
    /\ db = Tables
    /\ req \in CompileRequests
    /\ resp = NoResponse
    /\ pc = "idle"
    /\ RecordsIdle
    /\ compiled = <<>>
    /\ ScoreIdle
    /\ AiIdle

\* one call of generate_jsonld_schema on the user, resume and records the
\* request names; a raising call returns nothing
CompileSchema ==
    /\ Len(compiled) < MaxRuns
    /\ QueryUser(db.users, req.user_id) # <<>>
    /\ ~CompileRaises(req.include, SelectedRecords(db, req))
    /\ \E last_modified \in LastModifiedValues :
          compiled' = Append(compiled,
              [last_modified |-> last_modified,
               schema |-> generate_jsonld_schema(QueryUser(db.users, req.user_id)[1],
                                                 ResumeArgument(db, req, last_modified),
                                                 req.include, SelectedRecords(db, req))])
    /\ UNCHANGED <<resumeVars, recVars, scoreVars, aiVars>>

NextCompile == CompileSchema

SpecCompile == InitCompile /\ [][NextCompile]_vars


(***************************************************************************)
(* The scorer on its own, over schemas of every shape                      *)
(***************************************************************************)
Shapes ==
    [ctx : {"missing", "empty", "ok"}, typ : {"missing", "ok"}, hasPerson : BOOLEAN,
     name : {"missing", "null", "ok"}, email : {"missing", "ok"}, telephone : {"missing", "ok"},
     sameAs : {"missing", "empty", "ok"}, description : {"missing", "ok"},
     skills : {"missing", "empty", "ok"}, workExperience : {"missing", "empty", "ok"},
     education : {"missing", "empty", "ok"}]

\* d with key k absent, set to the empty value, or set to v
PutShape(d, k, shape, empty, v) ==
    CASE shape = "missing" -> d
      [] shape \in {"empty", "null"} -> Put(d, k, empty)
      [] shape = "ok" -> Put(d, k, v)

SchemaOfShape(c) ==
    LET p1 == PutShape(<<>>, "name", c.name, None, Some("Ada Lovelace"))
        p2 == PutShape(p1, "email", c.email, None, Some("ada@example.org"))
        p3 == PutShape(p2, "telephone", c.telephone, None, Some("+44 20 7946 0000"))
        p4 == PutShape(p3, "sameAs", c.sameAs, <<>>, SocialProfiles(UserRows[1]))
        s1 == PutShape(<<>>, "@context", c.ctx, Some(""), Some("https://schema.org/"))
        s2 == PutShape(s1, "@type", c.typ, None, Some("Resume"))
        s3 == IF c.hasPerson THEN Put(s2, "person", p4) ELSE s2
        s4 == PutShape(s3, "description", c.description, None, Some("Engineer and analyst"))
        s5 == PutShape(s4, "skills", c.skills, <<>>, <<SkillObj(SkillRows[1])>>)
        s6 == PutShape(s5, "workExperience", c.workExperience, <<>>,
                       <<WorkExperienceObj(WorkExperienceRows[1])>>)
    IN  PutShape(s6, "education", c.education, <<>>, <<EducationObj(EducationRows[1])>>)

ScoreSchemas == {SchemaOfShape(c) : c \in Shapes}

InitScore ==
    /\ ResumeIdle
    /\ RecordsIdle
    /\ CompileIdle
    /\ scoreIn \in ScoreSchemas
    /\ scoreOut = NoScore
    /\ rescored = NoScore
    /\ schema_json = NoText
    /\ validation = NoValidation
    /\ AiIdle

CalculateAtsScore ==
    /\ scoreOut = NoScore
    /\ scoreOut' = _calculate_ats_score(scoreIn, "Senior engineer")
    /\ UNCHANGED <<resumeVars, recVars, compileVars, scoreIn, rescored, schema_json, validation, aiVars>>

\* job descriptions of a second scoring call on the same schema
OtherJobDescriptions == {"Junior designer", "Python, Django and SQL developer", ""}

\* a second call of _calculate_ats_score on the same schema with another
\* job description
CalculateAtsScoreAgain ==
    /\ rescored = NoScore
    /\ \E job_description \in OtherJobDescriptions :
          rescored' = [job_description |-> job_description]
                      @@ _calculate_ats_score(scoreIn, job_description)
    /\ UNCHANGED <<resumeVars, recVars, compileVars, scoreIn, scoreOut, schema_json, validation, aiVars>>

NextScore == CalculateAtsScore \/ CalculateAtsScoreAgain

SpecScore == InitScore /\ [][NextScore]_vars

(***************************************************************************)
(* The validator: ATSValidator.validate_schema                             *)
(***************************************************************************)
\* JSON strings and integers, next to JDict, JList and JNull; a string is the
\* sequence of its characters, an integer the sequence of its digits
JStr(chars) == [t |-> "str", v |-> chars]
JNum(digits) == [t |-> "int", v |-> digits]

\* the characters of the property names
Spelling ==
    ("@context" :> <<"@", "c", "o", "n", "t", "e", "x", "t">>) @@
    ("@type" :> <<"@", "t", "y", "p", "e">>) @@
    ("identifier" :> <<"i", "d", "e", "n", "t", "i", "f", "i", "e", "r">>) @@
    ("name" :> <<"n", "a", "m", "e">>) @@
    ("email" :> <<"e", "m", "a", "i", "l">>) @@
    ("telephone" :> <<"t", "e", "l", "e", "p", "h", "o", "n", "e">>) @@
    ("address" :> <<"a", "d", "d", "r", "e", "s", "s">>) @@
    ("url" :> <<"u", "r", "l">>) @@
    ("skills" :> <<"s", "k", "i", "l", "l", "s">>) @@
    ("workExperience" :> <<"w", "o", "r", "k", "E", "x", "p", "e", "r", "i", "e", "n", "c", "e">>) @@
    ("education" :> <<"e", "d", "u", "c", "a", "t", "i", "o", "n">>) @@
    ("startDate" :> <<"s", "t", "a", "r", "t", "D", "a", "t", "e">>) @@
    ("endDate" :> <<"e", "n", "d", "D", "a", "t", "e">>) @@
    ("description" :> <<"d", "e", "s", "c", "r", "i", "p", "t", "i", "o", "n">>) @@
    ("responsibilities" :> <<"r", "e", "s", "p", "o", "n", "s", "i", "b", "i", "l", "i", "t", "i", "e", "s">>) @@
    ("credentialCategory" :> <<"c", "r", "e", "d", "e", "n", "t", "i", "a", "l", "C", "a", "t", "e", "g", "o", "r", "y">>)

\* ATSValidator.essential_properties, in the order of the lists
essential_properties ==
    [base |-> <<"@context", "@type", "identifier", "name">>,
     person |-> <<"name", "email">>,
     sections |-> <<"skills", "workExperience", "education">>]

\* ATSValidator.recommended_properties, in the order of the lists
recommended_in_order ==
    [person |-> <<"telephone", "address", "url">>,
     workExperience |-> <<"startDate", "endDate", "description", "responsibilities">>,
     education |-> <<"startDate", "endDate", "credentialCategory">>]

\* needle in hay, on strings
IsInfix(needle, hay) ==
    \E i \in 1..(Len(hay) - Len(needle) + 1) : SubSeq(hay, i, i + Len(needle) - 1) = needle

\* "prop in x" is evaluated without TypeError: x is a dict, a list or a string
CanContain(x) == x.t \in {"dict", "list", "str"}

\* prop in x: a key of the dict, an element of the list, a part of the string
Has(prop, x) ==
    CASE x.t = "dict" -> prop \in DOMAIN x.v
      [] x.t = "list" -> \E i \in DOMAIN x.v : x.v[i].t = "str" /\ x.v[i].v = Spelling[prop]
      [] x.t = "str" -> IsInfix(Spelling[prop], x.v)

\* bool(x)
Truthy(x) ==
    CASE x.t = "dict" -> DOMAIN x.v # {}
      [] x.t = "list" -> x.v # <<>>
      [] x.t = "str" -> x.v # <<>>
      [] x.t = "int" -> x.v # <<"0">>
      [] x.t = "NoneType" -> FALSE

\* schema.get(key, default) on a dict
GetOr(schema, key, default) == IF key \in DOMAIN schema.v THEN schema.v[key] ELSE default

\* the outcomes of a call
Raised(exception) == [raised |-> TRUE, exception |-> exception]
Returned(score, critical_issues, recommendations) ==
    [raised |-> FALSE, score |-> score, critical_issues |-> critical_issues,
     recommendations |-> recommendations]

\* the properties of the list that are not in x, in the order of the list
RECURSIVE MissingIn(_, _)
MissingIn(props, x) ==
    IF props = <<>> THEN <<>>
    ELSE (IF Has(Head(props), x) THEN <<>> ELSE <<Head(props)>>) \o MissingIn(Tail(props), x)

\* the loop over the entries of a section: "Add {prop} to {label} #{i+1}"
\* for each recommended property an entry lacks
RECURSIVE DetailRecommendations(_, _, _)
DetailRecommendations(entries, section, i) ==
    IF i > Len(entries) THEN <<>>
    ELSE LET missing == MissingIn(recommended_in_order[section], entries[i])
         IN  [k \in DOMAIN missing |-> <<"Add", missing[k], section, i>>]
             \o DetailRecommendations(entries, section, i + 1)

\* the loop over a section raises: the value is truthy and cannot be
\* iterated, or one of its entries is not a dict, a list or a string
DetailsRaise(value) ==
    /\ Truthy(value)
    /\ \/ value.t = "int"
       \/ value.t = "list" /\ \E i \in DOMAIN value.v : ~CanContain(value.v[i])

\* the recommendations of a section: none for a falsy value
SectionDetails(value, section) ==
    IF Truthy(value) /\ value.t = "list" THEN DetailRecommendations(value.v, section, 1) ELSE <<>>

\* validate_schema
validate_schema(text) ==
    IF ~text.valid THEN Returned(0, <<<<"Invalid JSON-LD schema">>>>, <<>>)
    ELSE
    LET schema == text.json
        base == MissingIn(essential_properties.base, schema)
        person == GetOr(schema, "person", JDict(<<>>))
        personMissing == MissingIn(essential_properties.person, person)
        personAdvice == MissingIn(recommended_in_order.person, person)
        NoSection(section) == ~Has(section, schema) \/ ~Truthy(schema.v[section])
        sections == SelectSeq(essential_properties.sections, NoSection)
        work_experiences == GetOr(schema, "workExperience", JList(<<>>))
        educations == GetOr(schema, "education", JList(<<>>))
        workAdvice == SectionDetails(work_experiences, "workExperience")
        educationAdvice == SectionDetails(educations, "education")
        score == 100 - 10 * Len(base) - 15 * Len(personMissing) - 5 * Len(personAdvice)
                     - 15 * Len(sections) - 2 * Len(workAdvice) - 2 * Len(educationAdvice)
    IN  IF ~CanContain(schema) THEN Raised("TypeError")
        ELSE IF schema.t # "dict" THEN Raised("AttributeError")
        ELSE IF ~CanContain(person) THEN Raised("TypeError")
        ELSE IF DetailsRaise(work_experiences) \/ DetailsRaise(educations)
        THEN Raised("TypeError")
        ELSE Returned(Max(0, Min(100, score)),
                      [k \in DOMAIN base |-> <<"Missing essential property", base[k]>>]
                      \o [k \in DOMAIN personMissing |->
                             <<"Missing essential person property", personMissing[k]>>]
                      \o [k \in DOMAIN sections |-> <<"Missing or empty section", sections[k]>>],
                      [k \in DOMAIN personAdvice |-> <<"Add", personAdvice[k], "person", 0>>]
                      \o workAdvice \o educationAdvice)

\* values of the base properties
BaseValues ==
    ("@context" :> JStr(<<"s">>)) @@ ("@type" :> JStr(<<"R">>))
    @@ ("identifier" :> JNum(<<"7">>)) @@ ("name" :> JStr(<<"c", "v">>))

\* values of "person": null, a number, a string, objects
PersonValues ==
    <<JNull, JNum(<<"7">>), JStr(<<"u", "n", "n", "a", "m", "e", "d">>), JDict(<<>>),
      JDict([name |-> JStr(<<"A">>), email |-> JStr(<<"a", "@", "b">>)]),
      JDict([name |-> JStr(<<"A">>), email |-> JStr(<<"a", "@", "b">>),
             telephone |-> JStr(<<"1">>), address |-> JDict(<<>>), url |-> JStr(<<"u">>)])>>

\* values of "skills"
SkillsValues == <<JList(<<>>), JList(<<JDict(<<>>)>>)>>

\* values of "workExperience" and "education": empty, a number, lists of
\* objects, of a string, of a number and of null
SectionValues ==
    <<JList(<<>>), JNum(<<"0">>), JNum(<<"7">>),
      JList(<<JDict([startDate |-> JStr(<<"2">>), endDate |-> JStr(<<"3">>),
                     description |-> JStr(<<"d">>), responsibilities |-> JList(<<>>),
                     credentialCategory |-> JStr(<<"B">>)])>>),
      JList(<<JDict([startDate |-> JStr(<<"2">>)]), JDict(<<>>)>>),
      JList(<<JStr(<<"n", "/", "a">>)>>),
      JList(<<JDict(<<>>), JNum(<<"7">>)>>),
      JList(<<JNull>>)>>

\* top-level values that are not objects
OtherValues == <<JNull, JNum(<<"7">>), JStr(<<"c", "v">>), JList(<<>>)>>

\* d with key k set to the i-th value, or without the key when i is 0
WithKey(d, k, values, i) == IF i = 0 THEN d ELSE Put(d, k, values[i])

\* the JSON text of an object with or without the base properties, a
\* person and the sections
ObjectText(b, p, s, w, e) ==
    [valid |-> TRUE,
     json |-> JDict(WithKey(WithKey(WithKey(WithKey(IF b THEN BaseValues ELSE <<>>,
                                                    "person", PersonValues, p),
                                            "skills", SkillsValues, s),
                                    "workExperience", SectionValues, w),
                            "education", SectionValues, e))]

\* the texts handed to the validator: not JSON, JSON that is not an object,
\* and objects
InitValidate ==
    /\ ResumeIdle
    /\ RecordsIdle
    /\ CompileIdle
    /\ scoreIn = NoSchema /\ scoreOut = NoScore /\ rescored = NoScore
    /\ \/ schema_json = NoText
       \/ \E i \in DOMAIN OtherValues : schema_json = [valid |-> TRUE, json |-> OtherValues[i]]
       \/ \E b \in BOOLEAN, p \in 0..Len(PersonValues), s \in 0..Len(SkillsValues),
             w \in 0..Len(SectionValues), e \in 0..Len(SectionValues) :
             schema_json = ObjectText(b, p, s, w, e)
    /\ validation = NoValidation
    /\ AiIdle

ValidateSchema ==
    /\ validation = NoValidation
    /\ validation' = <<validate_schema(schema_json)>>
    /\ UNCHANGED <<resumeVars, recVars, compileVars, scoreIn, scoreOut, rescored, schema_json,
                   aiVars>>

NextValidate == ValidateSchema

SpecValidate == InitValidate /\ [][NextValidate]_vars


(***************************************************************************)
(* The collaborator and the provider calls: AIService._call_*              *)
(***************************************************************************)
\* what the collaborator does with one request: the transport fails, it
\* answers with an error status, or it answers with a content text that is
\* the JSON text of a value or is not JSON at all
RawException == [kind |-> "exception", valid |-> FALSE, json |-> JNull]
RawStatus == [kind |-> "status", valid |-> FALSE, json |-> JNull]
RawNotJson == [kind |-> "content", valid |-> FALSE, json |-> JNull]
RawJson(value) == [kind |-> "content", valid |-> TRUE, json |-> value]

\* the {"error": str(e)} dict of the except branches
ErrorObj(msg) == JDict([error |-> msg])

\* _call_ai_provider / _call_ai_provider_with_system for a reply raw:
\* json.loads(content), or an error dict when the request or the decoding
\* raises or (anthropic, google) the status is not 200
_call_ai_provider(provider, raw) ==
    CASE raw.kind = "exception" -> ErrorObj("Connection error")
      [] raw.kind = "status" ->
            IF provider = "openai" THEN ErrorObj("Rate limit reached")
            ELSE ErrorObj("API error: 429")
      [] raw.kind = "content" ->
            IF raw.valid THEN raw.json ELSE ErrorObj("Expecting value: line 1 column 1 (char 0)")

\* a handler that does not test the extraction result for "error"
HasError_Never(x) == FALSE

\* "error" in x, for x a dict (a key) or a list (an element)
HasError(x) ==
    CASE x.t = "dict" -> "error" \in DOMAIN x.v
      [] x.t = "list" -> "error" \in {x.v[i] : i \in DOMAIN x.v}
      [] OTHER -> FALSE

\* d.get(k, []) on a dict of lists
GetList(d, k) == IF k \in DOMAIN d THEN d[k] ELSE <<>>

(***************************************************************************)
(* Databank: job_analysis._get_complete_user_databank                      *)
(***************************************************************************)
OwnedBy(rows, user_id) == SelectSeq(rows, LAMBDA r : r.user_id = user_id)

\* the helper reads exp.technologies_used, cert.description,
\* lang.proficiency.value, lang.details, proj.project_url, ...: attributes
\* the models do not have, so it raises AttributeError as soon as the user
\* owns a work experience, certification, language or project
AggregationRaises(tables, user_id) ==
    \/ OwnedBy(tables.workExperience, user_id) # <<>>
    \/ OwnedBy(tables.certifications, user_id) # <<>>
    \/ OwnedBy(tables.knowsLanguage, user_id) # <<>>
    \/ OwnedBy(tables.projects, user_id) # <<>>

\* x.isoformat() if x else None
IsoOrNone(d) == IF TruthyDate(d) THEN Some(isoformat(d[1])) ELSE None

\* the databank dict of a user for whom the helper does not raise
_get_complete_user_databank(user, tables) ==
    LET skills == OwnedBy(tables.skills, user.id)
        educations == OwnedBy(tables.education, user.id)
    IN  [user_profile |->
            [full_name |-> user.full_name, email |-> user.email, phone |-> user.phone,
             city |-> user.city, state |-> user.state, country |-> user.country,
             summary |-> user.summary, linkedin |-> user.linkedin, github |-> user.github,
             website |-> user.website],
         skills |->
            [i \in DOMAIN skills |->
                [id |-> skills[i].id, name |-> skills[i].name, category |-> skills[i].category,
                 experience_level |-> skills[i].experience_level,
                 years_of_experience |-> skills[i].years_of_experience,
                 details |-> skills[i].details, keywords |-> skills[i].keywords]],
         work_experiences |-> <<>>,
         educations |->
            [i \in DOMAIN educations |->
                [id |-> educations[i].id, institution |-> educations[i].institution,
                 degree |-> educations[i].degree, field_of_study |-> educations[i].field_of_study,
                 start_date |-> IsoOrNone(educations[i].start_date),
                 end_date |-> IsoOrNone(educations[i].end_date),
                 is_current |-> educations[i].is_current,
                 city |-> educations[i].city, state |-> educations[i].state,
                 country |-> educations[i].country,
                 gpa |-> IF TruthyStr(educations[i].gpa) THEN educations[i].gpa ELSE None,
                 achievements |-> educations[i].achievements,
                 activities |-> educations[i].activities]],
         certifications |-> <<>>,
         languages |-> <<>>,
         projects |-> <<>>]

(***************************************************************************)
(* Coverage Validator: AIService.validate_databank_coverage                *)
(***************************************************************************)
\* the required fields of the pydantic model DatabankCoverage
CoverageFields ==
    {"coverage_summary", "critical_gaps", "transferable_skills", "databank_utilization_percentage"}

\* sum([exp.get('years', 0) for exp in work_experiences])
RECURSIVE SumYears(_)
SumYears(exps) ==
    IF exps = <<>> THEN 0
    ELSE (IF "years" \in DOMAIN Head(exps) THEN Head(exps).years ELSE 0) + SumYears(Tail(exps))

\* DatabankCoverage(**coverage_data) succeeds: the data is a dict holding
\* every required field (the replies modelled carry well-typed fields)
ParsesAsCoverage(result) == result.t = "dict" /\ CoverageFields \subseteq DOMAIN result.v

\* a default that reports nothing missing
FailClosedCoverage_NothingMissing(job, databank) ==
    [coverage_summary |->
        [skills |-> [covered |-> 0, required |-> 0, percentage |-> 0,
                     missing_required |-> <<>>, missing_preferred |-> <<>>],
         experience |-> [meets_requirements |-> FALSE, user_years |-> 0,
                         required_years |-> 0, gap_analysis |-> "Unable to analyze"],
         education |-> [meets_requirements |-> FALSE, user_education |-> <<>>,
                        required_education |-> <<>>, gaps |-> <<>>],
         certifications |-> [relevant_count |-> 0, preferred_count |-> 0, missing |-> <<>>]],
     critical_gaps |-> <<>>,
     transferable_skills |-> <<>>,
     databank_utilization_percentage |-> 0]

\* the "safe default" of the except branch
FailClosedCoverage(job, databank) ==
    [coverage_summary |->
        [skills |-> [covered |-> 0, required |-> Len(GetList(job, "required_skills")),
                     percentage |-> 0,
                     missing_required |-> GetList(job, "required_skills"),
                     missing_preferred |-> GetList(job, "preferred_skills")],
         experience |-> [meets_requirements |-> FALSE,
                         user_years |-> SumYears(databank.work_experiences),
                         required_years |-> 0, gap_analysis |-> "Unable to analyze"],
         education |-> [meets_requirements |-> FALSE,
                        user_education |-> [i \in DOMAIN databank.educations |->
                                                databank.educations[i].degree],
                        required_education |-> GetList(job, "education_requirements"),
                        gaps |-> <<>>],
         certifications |-> [relevant_count |-> 0, preferred_count |-> 0, missing |-> <<>>]],
     critical_gaps |-> <<>>,
     transferable_skills |-> <<>>,
     databank_utilization_percentage |-> 0]

\* the value validate_databank_coverage returns for the provider result:
\* the parsed report (extra fields dropped), else the safe default; a result
\* that is not a dict makes json.loads raise, which the except branch catches
validate_databank_coverage(job, databank, result) ==
    IF ParsesAsCoverage(result)
    THEN [f \in CoverageFields |-> result.v[f]]
    ELSE FailClosedCoverage(job, databank)

(***************************************************************************)
(* Gap Recommender: AIService.identify_databank_gaps                       *)
(***************************************************************************)
\* the required fields of the pydantic model GapRecommendation
GapFields == {"category", "item_type", "suggestion", "priority", "reasoning"}

\* the recommendations in the order the collaborator lists them; [] when the
\* result is not a dict or one entry lacks a field (the except branch)
identify_databank_gaps(result) ==
    IF result.t # "dict" THEN <<>>
    ELSE LET recs == GetList(result.v, "recommendations")
         IN  IF \A i \in DOMAIN recs : GapFields \subseteq DOMAIN recs[i]
             THEN [i \in DOMAIN recs |-> [f \in GapFields |-> recs[i][f]]]
             ELSE <<>>

(***************************************************************************)
(* Constrained Content Generator: AIService.generate_anti_hallucination_resume *)
(***************************************************************************)
\* the dict of the except branch
GenerationFailed ==
    [error |-> "Failed to generate anti-hallucination resume",
     databank_utilization_report |-> [utilization_percentage |-> 0, error |-> "Generation failed"]]

\* the value returned for the provider result: the dict as received; a
\* result that is not a dict makes json.loads raise, giving the error dict
generate_anti_hallucination_resume(result) ==
    IF result.t = "dict" THEN result.v ELSE GenerationFailed


(***************************************************************************)
(* The job-analysis endpoints: api/job_analysis.py                         *)
(***************************************************************************)
Endpoints == {"validate-databank-coverage", "suggest-databank-enhancements",
              "generate-anti-hallucination-resume"}

\* provider = current_user.preferred_ai_provider or "openai"
ProviderOf(user) ==
    IF TruthyStr(user.preferred_ai_provider) THEN user.preferred_ai_provider[1] ELSE "openai"

\* the api_key the if/elif chain picks for the provider
ApiKeyOf(user) ==
    CASE ProviderOf(user) = "openai" -> user.api_key_openai
      [] ProviderOf(user) = "anthropic" -> user.api_key_anthropic
      [] ProviderOf(user) = "google" -> user.api_key_google
      [] OTHER -> None

CurrentUser == QueryUser(db.users, aiReq.user_id)[1]

\* answers of the collaborator to requirement extraction
JobFull ==
    [job_title |-> "Platform Engineer", required_skills |-> <<"Go", "Kubernetes">>,
     preferred_skills |-> <<"Python">>, experience_level |-> "Senior",
     education_requirements |-> <<"BSc">>, key_responsibilities |-> <<"Run the clusters">>,
     industry |-> "Software", keywords |-> <<"cloud">>]
JobPartial == [job_title |-> "Platform Engineer"]

ExtractReplies ==
    {RawException, RawStatus, RawNotJson, RawJson(JDict(JobFull)), RawJson(JDict(JobPartial)),
     RawJson(JList(<<>>))}

\* answers of the collaborator to coverage validation
CoverageSummary(missing_required) ==
    [skills |-> [covered |-> 1, required |-> 2, percentage |-> 50,
                 missing_required |-> missing_required, missing_preferred |-> <<"Python">>],
     experience |-> [meets_requirements |-> FALSE, user_years |-> 0, required_years |-> 5,
                     gap_analysis |-> "No experience on record"],
     education |-> [meets_requirements |-> TRUE, user_education |-> <<"MSc">>,
                    required_education |-> <<"BSc">>, gaps |-> <<>>],
     certifications |-> [relevant_count |-> 0, preferred_count |-> 0, missing |-> <<>>]]

CoverageGrounded ==
    [coverage_summary |-> CoverageSummary(<<"Kubernetes">>), critical_gaps |-> <<"Kubernetes">>,
     transferable_skills |-> <<>>, databank_utilization_percentage |-> 50]
CoverageInvented ==
    [coverage_summary |-> CoverageSummary(<<"Kubernetes", "Rust">>), critical_gaps |-> <<"Rust">>,
     transferable_skills |-> <<>>, databank_utilization_percentage |-> 150]
CoverageIncomplete ==
    [coverage_summary |-> CoverageSummary(<<"Kubernetes">>), transferable_skills |-> <<>>,
     databank_utilization_percentage |-> 50]

CoverageReplies ==
    {RawException, RawStatus, RawNotJson, RawJson(JDict(CoverageGrounded)),
     RawJson(JDict(CoverageInvented)), RawJson(JDict(CoverageIncomplete)), RawJson(JList(<<>>))}

\* answers of the collaborator to gap recommendation
Rec(category, priority) ==
    [category |-> category, item_type |-> "entry", suggestion |-> "Document it",
     priority |-> priority, reasoning |-> "Named in the job description"]

GapReplies ==
    {RawException, RawNotJson,
     RawJson(JDict([recommendations |-> <<Rec("skills", "high"), Rec("education", "low")>>])),
     RawJson(JDict([recommendations |-> <<Rec("education", "low"), Rec("skills", "high")>>])),
     RawJson(JDict([recommendations |->
                       <<Rec("skills", "medium"), [category |-> "skills", priority |-> "high"]>>])),
     RawJson(JDict([advice |-> "none"]))}

\* answers of the collaborator to constrained generation
Generated(experience_section) ==
    [professional_summary |-> "Go engineer",
     skills_section |-> [technical_skills |-> <<"Go">>, soft_skills |-> <<>>,
                         tools_technologies |-> <<>>],
     experience_section |-> experience_section,
     education_section |-> <<"MSc Physics, MIT">>,
     certifications_section |-> <<>>,
     databank_utilization_report |->
        [content_sources |-> "skills, educations", utilization_percentage |-> 100,
         unused_databank_content |-> <<>>, identified_gaps |-> <<"Kubernetes">>]]

GenerationReplies ==
    {RawException, RawNotJson, RawJson(JList(<<>>)),
     RawJson(JDict(Generated(<<>>))),
     RawJson(JDict(Generated(<<[company |-> "Hooli", title |-> "CTO", duration |-> "2015-2020",
                                achievements |-> <<"Led 200 engineers">>]>>))),
     RawJson(JDict([text |-> "Here is your resume"]))}

InitAI ==
    /\ ResumeIdle
    /\ RecordsIdle
    /\ CompileIdle
    /\ ScoreIdle
    /\ aiReq \in [endpoint : Endpoints, user_id : UserIds]
    /\ aiPc = "start"
    /\ job_analysis = JNull
    /\ user_databank = <<>>
    /\ coverage_analysis = <<>>
    /\ gap_recommendations = <<>>
    /\ resume_result = <<>>
    /\ aiResp = NoResponse
    /\ calls = <<>>

\* every handler body is one try block whose "except Exception" turns any
\* exception raised inside, HTTPException included, into a 500 response
Fail500 == aiPc' = "done" /\ aiResp' = [status |-> 500]

\* the handler up to the databank: the key check, the requirement
\* extraction call, the "error" test and the databank helper
ExtractAndAggregate ==
    /\ aiPc = "start"
    /\ IF ~TruthyStr(ApiKeyOf(CurrentUser))
       THEN /\ Fail500
            /\ UNCHANGED <<job_analysis, user_databank, calls>>
       ELSE \E raw \in ExtractReplies :
               LET result == _call_ai_provider(ProviderOf(CurrentUser), raw)
               IN  /\ calls' = Append(calls, [op |-> "analyze_job_description", raw |-> raw])
                   /\ job_analysis' = result
                   /\ IF HasError(result) \/ AggregationRaises(db, aiReq.user_id)
                      THEN Fail500 /\ UNCHANGED user_databank
                      ELSE /\ user_databank' = _get_complete_user_databank(CurrentUser, db)
                           /\ aiPc' = "coverage"
                           /\ UNCHANGED aiResp
    /\ UNCHANGED <<resumeVars, recVars, compileVars, scoreVars, aiReq, coverage_analysis, gap_recommendations, resume_result>>

\* ai_service.validate_databank_coverage(job_analysis, user_databank): the
\* prompt reads job_analysis.get(...), which raises when the extraction
\* answer is not a dict; else one collaborator call and its parsing.  The
\* validate endpoint answers with the report
ValidateCoverage ==
    /\ aiPc = "coverage"
    /\ IF job_analysis.t # "dict"
       THEN /\ Fail500
            /\ UNCHANGED <<coverage_analysis, calls>>
       ELSE \E raw \in CoverageReplies :
               LET result == _call_ai_provider(ProviderOf(CurrentUser), raw)
                   report == validate_databank_coverage(job_analysis.v, user_databank, result)
               IN  /\ calls' = Append(calls, [op |-> "validate_databank_coverage", raw |-> raw])
                   /\ coverage_analysis' = report
                   /\ IF aiReq.endpoint = "validate-databank-coverage"
                      THEN /\ aiPc' = "done"
                           /\ aiResp' = [status |-> 200, body |-> report]
                      ELSE /\ aiPc' = "gaps"
                           /\ UNCHANGED aiResp
    /\ UNCHANGED <<resumeVars, recVars, compileVars, scoreVars, aiReq, job_analysis, user_databank, gap_recommendations,
                   resume_result>>

\* ai_service.identify_databank_gaps(coverage_analysis, job_analysis); the
\* suggest endpoint answers with the list, the categories of the high
\* priority entries and the estimated improvement
IdentifyGaps ==
    /\ aiPc = "gaps"
    /\ \E raw \in GapReplies :
          LET result == _call_ai_provider(ProviderOf(CurrentUser), raw)
              recs == identify_databank_gaps(result)
              high == SelectSeq(recs, LAMBDA r : r.priority = "high")
              pct == coverage_analysis.databank_utilization_percentage
          IN  /\ calls' = Append(calls, [op |-> "identify_databank_gaps", raw |-> raw])
              /\ gap_recommendations' = recs
              /\ IF aiReq.endpoint = "suggest-databank-enhancements"
                 THEN /\ aiPc' = "done"
                      /\ aiResp' =
                           [status |-> 200,
                            body |-> [recommendations |-> recs,
                                      priority_order |-> [i \in DOMAIN high |-> high[i].category],
                                      estimated_improvement |->
                                         [skills_coverage |->
                                             Min(100, pct + 10 * Len(SelectSeq(recs,
                                                 LAMBDA r : r.category = "skills" /\ r.priority = "high"))),
                                          overall_match |-> Min(100, pct + 5 * Len(recs))]]]
                 ELSE /\ aiPc' = "generate"
                      /\ UNCHANGED aiResp
    /\ UNCHANGED <<resumeVars, recVars, compileVars, scoreVars, aiReq, job_analysis, user_databank, coverage_analysis,
                   resume_result>>

\* a generator call made with an empty coverage report
GenerationArguments_NoReport ==
    [user_databank |-> user_databank, job_analysis |-> job_analysis, coverage_analysis |-> <<>>]

\* the arguments the generate endpoint passes to
\* ai_service.generate_anti_hallucination_resume
GenerationArguments ==
    [user_databank |-> user_databank, job_analysis |-> job_analysis,
     coverage_analysis |-> coverage_analysis]

\* ai_service.generate_anti_hallucination_resume(...), the "error" test on
\* its result and the response of the generate endpoint
GenerateResume ==
    /\ aiPc = "generate"
    /\ \E raw \in GenerationReplies :
          LET result == _call_ai_provider(ProviderOf(CurrentUser), raw)
              resume_data == generate_anti_hallucination_resume(result)
          IN  /\ calls' = Append(calls, [op |-> "generate_anti_hallucination_resume", raw |-> raw,
                                          args |-> GenerationArguments])
              /\ resume_result' = resume_data
              /\ aiPc' = "done"
              /\ IF "error" \in DOMAIN resume_data
                 THEN aiResp' = [status |-> 500]
                 ELSE aiResp' =
                        [status |-> 200,
                         body |-> [resume_content |-> resume_data,
                                   databank_utilization_report |->
                                      IF "databank_utilization_report" \in DOMAIN resume_data
                                      THEN resume_data.databank_utilization_report ELSE <<>>,
                                   coverage_analysis |-> coverage_analysis,
                                   enhancement_suggestions |-> gap_recommendations]]
    /\ UNCHANGED <<resumeVars, recVars, compileVars, scoreVars, aiReq, job_analysis, user_databank, coverage_analysis,
                   gap_recommendations>>

NextAI == ExtractAndAggregate \/ ValidateCoverage \/ IdentifyGaps \/ GenerateResume

SpecAI == InitAI /\ [][NextAI]_vars


(***************************************************************************)
(* Profile records: api/work_experiences.py, api/educations.py,            *)
(* api/skills.py, api/users.py                                             *)
(***************************************************************************)
\* the users who send profile requests
Actors == {1, 2}

\* the next primary key of a table
NextId(rows) == IF rows = <<>> THEN 1 ELSE rows[Len(rows)].id + 1

\* db.query(T).filter(T.id == id, T.user_id == user_id).first(), as the
\* positions of the row in the table (none or one)
FindOwned(rows, id, user_id) == {i \in DOMAIN rows : rows[i].id = id /\ rows[i].user_id = user_id}

\* "for key, value in update_data.items(): setattr(row, key, value)"
SetAttrs(row, update_data) ==
    [k \in DOMAIN row |-> IF k \in DOMAIN update_data THEN update_data[k] ELSE row[k]]

\* rows without the one at position i
RemoveAt(rows, i) == [j \in 1..(Len(rows) - 1) |-> IF j < i THEN rows[j] ELSE rows[j + 1]]

\* a delete that also resets the score of every stored resume
Dissociate_ResetScore(resumes, table, id) ==
    [n \in DOMAIN resumes |->
        [resumes[n] EXCEPT !.assoc[table] = SelectSeq(@, LAMBDA x : x # id), !.ats_score = 0]]

\* the association rows of a deleted record go with it
Dissociate(resumes, table, id) ==
    [n \in DOMAIN resumes |->
        [resumes[n] EXCEPT !.assoc[table] = SelectSeq(@, LAMBDA x : x # id)]]

\* the check both create and update make on their payload:
\* data.get('is_current') and data.get('end_date')
CurrentWithEndDate(data) ==
    /\ "is_current" \in DOMAIN data /\ data.is_current
    /\ "end_date" \in DOMAIN data /\ TruthyDate(data.end_date)

\* WorkExperienceCreate / EducationCreate bodies: the required fields, the
\* current flag and the end date
CreateBodies(table) ==
    IF table = "workExperience"
    THEN [company : {Some("Hooli")}, job_title : {Some("Engineer")}, start_date : {Some(D2019)},
          end_date : {None, Some(D2021)}, is_current : BOOLEAN,
          city : {None}, state : {None}, country : {None}, description : {None},
          responsibilities : {None}, achievements : {None}]
    ELSE [institution : {Some("UCL")}, degree : {Some("BSc")}, field_of_study : {Some("Physics")},
          start_date : {Some(D2019)}, end_date : {None, Some(D2021)}, is_current : BOOLEAN,
          city : {None}, state : {None}, country : {None}, gpa : {None},
          achievements : {None}, activities : {None}]

\* update bodies after dict(exclude_unset=True): each of is_current,
\* end_date and description / gpa is either left out or set; a one-element
\* tuple says "set to this value"
UpdateBodies(table) ==
    {PutIf(Len(d) > 0, PutIf(Len(e) > 0, PutIf(Len(c) > 0, <<>>, "is_current", c[1]),
                            "end_date", e[1]),
           IF table = "workExperience" THEN "description" ELSE "gpa", d[1]) :
        c \in {<<>>, <<TRUE>>, <<FALSE>>},
        e \in {<<>>, <<None>>, <<Some(D2021)>>},
        d \in {<<>>, <<Some("revised")>>}}

\* create_work_experience / create_education: [status, tables]
create_record(tables, table, user_id, body) ==
    IF CurrentWithEndDate(body)
    THEN [status |-> 400, tables |-> tables]
    ELSE [status |-> 200,
          tables |-> [tables EXCEPT ![table] =
                         Append(@, body @@ [id |-> NextId(tables[table]), user_id |-> user_id])]]

\* update_work_experience / update_education
update_record(tables, table, user_id, id, update_data) ==
    LET found == FindOwned(tables[table], id, user_id)
    IN  IF found = {} THEN [status |-> 404, tables |-> tables]
        ELSE IF CurrentWithEndDate(update_data) THEN [status |-> 400, tables |-> tables]
        ELSE [status |-> 200,
              tables |-> [tables EXCEPT ![table] =
                             [i \in DOMAIN @ |-> IF i \in found THEN SetAttrs(@[i], update_data)
                                                 ELSE @[i]]]]

\* delete_work_experience / delete_education / delete_skill
delete_record(tables, table, user_id, id) ==
    LET found == FindOwned(tables[table], id, user_id)
    IN  IF found = {} THEN [status |-> 404, tables |-> tables]
        ELSE [status |-> 204,
              tables |-> [tables EXCEPT ![table] = RemoveAt(@, CHOOSE i \in found : TRUE),
                                        !.resumes = Dissociate(@, table, id)]]

\* a lookup that never finds a skill of that name
SkillsNamed_NoneFound(rows, name, user_id) == {}

\* get_skill_by_name_for_user, as the set of positions found
SkillsNamed(rows, name, user_id) ==
    {i \in DOMAIN rows : rows[i].name = name /\ rows[i].user_id = user_id}

\* SkillCreate bodies
SkillCreateBodies ==
    [name : {Some("Python"), Some("Go")}, experience_level : {Some("Expert")}, category : {None},
     years_of_experience : {None}, details : {None}, keywords : {None}]

\* SkillUpdate bodies after model_dump(exclude_unset=True)
SkillUpdateBodies ==
    {PutIf(Len(k) > 0, PutIf(Len(n) > 0, <<>>, "name", n[1]), "keywords", k[1]) :
        n \in {<<>>, <<Some("Python")>>, <<Some("Go")>>},
        k \in {<<>>, <<Some(JsonListText)>>}}

\* create_skill
create_skill(tables, user_id, skill_in) ==
    IF SkillsNamed(tables.skills, skill_in.name, user_id) # {}
    THEN [status |-> 409, tables |-> tables]
    ELSE [status |-> 201,
          tables |-> [tables EXCEPT !.skills =
                         Append(@, skill_in @@ [id |-> NextId(tables.skills), user_id |-> user_id])]]

\* update_skill
update_skill(tables, user_id, skill_id, update_data) ==
    LET found == FindOwned(tables.skills, skill_id, user_id)
        db_skill == tables.skills[CHOOSE i \in found : TRUE]
    IN  IF found = {} THEN [status |-> 404, tables |-> tables]
        ELSE IF /\ "name" \in DOMAIN update_data
                /\ update_data.name # db_skill.name
                /\ SkillsNamed(tables.skills, update_data.name, user_id) # {}
        THEN [status |-> 409, tables |-> tables]
        ELSE [status |-> 200,
              tables |-> [tables EXCEPT !.skills =
                             [i \in DOMAIN @ |-> IF i \in found THEN SetAttrs(@[i], update_data)
                                                 ELSE @[i]]]]

\* get_project_by_name_for_user and its certification and language twins
RecordsNamed(rows, name, user_id) ==
    {i \in DOMAIN rows : rows[i].name = name /\ rows[i].user_id = user_id}

\* the columns a create body carries
BodyOf(row) == [k \in DOMAIN row \ {"id", "user_id"} |-> row[k]]

\* ProjectCreate / CertificationCreate / LanguageCreate bodies
NamedCreateBodies(table) == {BodyOf(Tables[table][1])}

\* ProjectUpdate / CertificationUpdate / LanguageUpdate bodies after
\* model_dump(exclude_unset=True): a new name
NamedUpdateBodies == {[name |-> Some("Renamed")]}

\* create_project / create_certification / create_language
create_named_record(tables, table, user_id, body) ==
    IF RecordsNamed(tables[table], body.name, user_id) # {}
    THEN [status |-> 409, tables |-> tables]
    ELSE [status |-> 201,
          tables |-> [tables EXCEPT ![table] =
                         Append(@, body @@ [id |-> NextId(tables[table]), user_id |-> user_id])]]

\* update_project / update_certification / update_language
update_named_record(tables, table, user_id, id, update_data) ==
    LET found == FindOwned(tables[table], id, user_id)
        db_record == tables[table][CHOOSE i \in found : TRUE]
    IN  IF found = {} THEN [status |-> 404, tables |-> tables]
        ELSE IF /\ "name" \in DOMAIN update_data
                /\ update_data.name # db_record.name
                /\ RecordsNamed(tables[table], update_data.name, user_id) # {}
        THEN [status |-> 409, tables |-> tables]
        ELSE [status |-> 200,
              tables |-> [tables EXCEPT ![table] =
                             [i \in DOMAIN @ |-> IF i \in found THEN SetAttrs(@[i], update_data)
                                                 ELSE @[i]]]]

\* ProfileUpdate bodies: username and email, None when left out
ProfileBodies ==
    [username : {None, Some("bob"), Some("grace")},
     email : {None, Some("bob@example.org"), Some("grace@example.org")}]

\* update_profile: a taken username or email answers 400 and nothing is
\* committed
update_profile(tables, user_id, profile_data) ==
    LET current_user == QueryUser(tables.users, user_id)[1]
        newName == TruthyStr(profile_data.username) /\ profile_data.username # current_user.username
        newMail == TruthyStr(profile_data.email) /\ profile_data.email # current_user.email
        taken(col, v) == \E i \in DOMAIN tables.users : tables.users[i][col] = v
    IN  IF \/ newName /\ taken("username", profile_data.username)
           \/ newMail /\ taken("email", profile_data.email)
        THEN [status |-> 400, tables |-> tables]
        ELSE [status |-> 200,
              tables |-> [tables EXCEPT !.users =
                  [i \in DOMAIN @ |->
                      IF @[i].id # user_id THEN @[i]
                      ELSE [@[i] EXCEPT !.username = IF newName THEN profile_data.username ELSE @,
                                        !.email = IF newMail THEN profile_data.email ELSE @]]]]

\* the tables before any work experience, education, project, certification
\* or language has been entered
FreshTables ==
    [users |-> UserRows, skills |-> SkillRows, workExperience |-> <<>>, education |-> <<>>,
     projects |-> <<>>, certifications |-> <<>>, knowsLanguage |-> <<>>, resumes |-> <<>>]

\* the create-resume request pending while the profile is edited: user 1,
\* the first record of each kind
ProfileRequests ==
    [user_id : {1}, format : {"pdf"}, title : {Some("Tailored resume")},
     job_description : {"Senior engineer"}, now : {"2024-05-01T10:00:00"},
     include_summary : {TRUE},
     include : {[s \in Sections |-> TRUE]},
     selected : {[s \in Sections |-> {1}]}]

InitProfile ==
    /\ db = FreshTables
    /\ req \in ProfileRequests
    /\ resp = NoResponse
    /\ pc = "start"
    /\ RecordsIdle
    /\ CompileIdle
    /\ ScoreIdle
    /\ AiIdle

\* one profile request served: the tables it leaves and its status
Serve(op, result) ==
    /\ db' = result.tables
    /\ recLog' = Append(recLog, [op |-> op, status |-> result.status])
    /\ UNCHANGED <<req, resp, pc, inflight, compileVars, scoreVars, aiVars>>

\* the ids a request may name: those in the table and one that is not
IdsNamed(rows) == TableIds(rows) \cup {NextId(rows)}

CreateWorkExperience ==
    /\ Len(recLog) < MaxOps
    /\ \E u \in Actors, body \in CreateBodies("workExperience") :
           Serve("create_work_experience", create_record(db, "workExperience", u, body))

UpdateWorkExperience ==
    /\ Len(recLog) < MaxOps
    /\ \E u \in Actors, id \in IdsNamed(db.workExperience), data \in UpdateBodies("workExperience") :
           Serve("update_work_experience", update_record(db, "workExperience", u, id, data))

DeleteWorkExperience ==
    /\ Len(recLog) < MaxOps
    /\ \E u \in Actors, id \in IdsNamed(db.workExperience) :
           Serve("delete_work_experience", delete_record(db, "workExperience", u, id))

CreateEducation ==
    /\ Len(recLog) < MaxOps
    /\ \E u \in Actors, body \in CreateBodies("education") :
           Serve("create_education", create_record(db, "education", u, body))

UpdateEducation ==
    /\ Len(recLog) < MaxOps
    /\ \E u \in Actors, id \in IdsNamed(db.education), data \in UpdateBodies("education") :
           Serve("update_education", update_record(db, "education", u, id, data))

DeleteEducation ==
    /\ Len(recLog) < MaxOps
    /\ \E u \in Actors, id \in IdsNamed(db.education) :
           Serve("delete_education", delete_record(db, "education", u, id))

CreateSkill ==
    /\ Len(recLog) < MaxOps
    /\ \E u \in Actors, body \in SkillCreateBodies : Serve("create_skill", create_skill(db, u, body))

UpdateSkill ==
    /\ Len(recLog) < MaxOps
    /\ \E u \in Actors, id \in IdsNamed(db.skills), data \in SkillUpdateBodies :
           Serve("update_skill", update_skill(db, u, id, data))

DeleteSkill ==
    /\ Len(recLog) < MaxOps
    /\ \E u \in Actors, id \in IdsNamed(db.skills) :
           Serve("delete_skill", delete_record(db, "skills", u, id))

UpdateProfile ==
    /\ Len(recLog) < MaxOps
    /\ \E u \in Actors, body \in ProfileBodies : Serve("update_profile", update_profile(db, u, body))

CreateProject ==
    /\ Len(recLog) < MaxOps
    /\ \E u \in Actors, body \in NamedCreateBodies("projects") :
           Serve("create_project", create_named_record(db, "projects", u, body))

UpdateProject ==
    /\ Len(recLog) < MaxOps
    /\ \E u \in Actors, id \in IdsNamed(db.projects), data \in NamedUpdateBodies :
           Serve("update_project", update_named_record(db, "projects", u, id, data))

DeleteProject ==
    /\ Len(recLog) < MaxOps
    /\ \E u \in Actors, id \in IdsNamed(db.projects) :
           Serve("delete_project", delete_record(db, "projects", u, id))

CreateCertification ==
    /\ Len(recLog) < MaxOps
    /\ \E u \in Actors, body \in NamedCreateBodies("certifications") :
           Serve("create_certification", create_named_record(db, "certifications", u, body))

UpdateCertification ==
    /\ Len(recLog) < MaxOps
    /\ \E u \in Actors, id \in IdsNamed(db.certifications), data \in NamedUpdateBodies :
           Serve("update_certification", update_named_record(db, "certifications", u, id, data))

DeleteCertification ==
    /\ Len(recLog) < MaxOps
    /\ \E u \in Actors, id \in IdsNamed(db.certifications) :
           Serve("delete_certification", delete_record(db, "certifications", u, id))

CreateLanguage ==
    /\ Len(recLog) < MaxOps
    /\ \E u \in Actors, body \in NamedCreateBodies("knowsLanguage") :
           Serve("create_language", create_named_record(db, "knowsLanguage", u, body))

UpdateLanguage ==
    /\ Len(recLog) < MaxOps
    /\ \E u \in Actors, id \in IdsNamed(db.knowsLanguage), data \in NamedUpdateBodies :
           Serve("update_language", update_named_record(db, "knowsLanguage", u, id, data))

DeleteLanguage ==
    /\ Len(recLog) < MaxOps
    /\ \E u \in Actors, id \in IdsNamed(db.knowsLanguage) :
           Serve("delete_language", delete_record(db, "knowsLanguage", u, id))

NextProfile ==
    \/ CreateWorkExperience \/ UpdateWorkExperience \/ DeleteWorkExperience
    \/ CreateEducation \/ UpdateEducation \/ DeleteEducation
    \/ CreateSkill \/ UpdateSkill \/ DeleteSkill
    \/ CreateProject \/ UpdateProject \/ DeleteProject
    \/ CreateCertification \/ UpdateCertification \/ DeleteCertification
    \/ CreateLanguage \/ UpdateLanguage \/ DeleteLanguage
    \/ UpdateProfile
    \/ CreateResume

SpecProfile == InitProfile /\ [][NextProfile]_vars

(***************************************************************************)
(* Two create_skill requests served at the same time.  Each request has    *)
(* its own session (get_db); the lookup by name and the insert are two     *)
(* separate statements, and the skills table has no uniqueness constraint  *)
(* on (user_id, name), so a commit never fails on a duplicate.             *)
(***************************************************************************)
Racers == {1, 2}

\* a request as it arrives at the endpoint
ArrivingSkillRequests ==
    [user_id : Actors, skill_in : SkillCreateBodies, at : {"start"}, status : {0}]

InitRace ==
    /\ db = FreshTables
    /\ req = NoRequest
    /\ resp = NoResponse
    /\ pc = "idle"
    /\ recLog = <<>>
    /\ inflight \in [Racers -> ArrivingSkillRequests]
    /\ CompileIdle
    /\ ScoreIdle
    /\ AiIdle

\* create_skill up to its lookup: 409 when a skill of that name is found
CheckSkillName ==
    /\ \E n \in Racers : inflight[n].at = "start"
    /\ \E n \in Racers :
          /\ inflight[n].at = "start"
          /\ inflight' = [inflight EXCEPT ![n] =
                 IF SkillsNamed(db.skills, @.skill_in.name, @.user_id) # {}
                 THEN [@ EXCEPT !.at = "done", !.status = 409]
                 ELSE [@ EXCEPT !.at = "checked"]]
    /\ UNCHANGED <<resumeVars, recLog, compileVars, scoreVars, aiVars>>

\* create_skill from db.add to the response: the row is inserted and committed
CommitSkill ==
    /\ \E n \in Racers : inflight[n].at = "checked"
    /\ \E n \in Racers :
          /\ inflight[n].at = "checked"
          /\ db' = [db EXCEPT !.skills =
                       Append(@, inflight[n].skill_in @@
                                 [id |-> NextId(db.skills), user_id |-> inflight[n].user_id])]
          /\ inflight' = [inflight EXCEPT ![n] = [@ EXCEPT !.at = "done", !.status = 201]]
    /\ UNCHANGED <<req, resp, pc, recLog, compileVars, scoreVars, aiVars>>

NextRace ==
    \/ CheckSkillName
    \/ CommitSkill

SpecRace == InitRace /\ [][NextRace]_vars

(***************************************************************************)
(* Properties of resume creation                                           *)
(***************************************************************************)
\* the resume row the request created
Created == db.resumes[resp.id]
CreatedSchema == Created.schema_jsonld.json
IsCreated == pc = "done" /\ resp.status = 200

RowById(rows, id) == CHOOSE r \in {rows[i] : i \in DOMAIN rows} : r.id = id

\* the records of the requesting user that the request names for a section
NamedRecords(s) ==
    {r \in {db[s][i] : i \in DOMAIN db[s]} : r.user_id = req.user_id /\ r.id \in req.selected[s]}

\* C1: the compiled schema of a created resume has a section's key exactly
\* when the section's include-flag is set and at least one record of the user
\* was selected for it, and a section array that is present is never empty
C1_SectionKeyIffFlagAndRecords ==
    IsCreated =>
        \A s \in Sections :
            /\ (s \in DOMAIN CreatedSchema) <=> (req.include[s] /\ NamedRecords(s) # {})
            /\ (s \in DOMAIN CreatedSchema) => Len(CreatedSchema[s]) = Cardinality(NamedRecords(s))
            /\ (s \in DOMAIN CreatedSchema) => Len(CreatedSchema[s]) > 0

\* an enabled section with ids selected but no record found is omitted,
\* next to a section that is compiled
C1_Witness ==
    /\ IsCreated
    /\ \E s \in Sections :
          req.include[s] /\ req.selected[s] # {} /\ NamedRecords(s) = {} /\ s \notin DOMAIN CreatedSchema
    /\ \E s \in Sections : s \in DOMAIN CreatedSchema

CurrentSections == {"workExperience", "education", "projects"}

\* C2: the object compiled for a current work experience, education or
\* project never has an endDate, stored end date or not
C2_NoEndDateWhenCurrent ==
    IsCreated =>
        \A s \in CurrentSections :
            s \in DOMAIN CreatedSchema =>
                \A i \in DOMAIN CreatedSchema[s] :
                    RowById(db[s], Created.assoc[s][i]).is_current
                        => "endDate" \notin DOMAIN CreatedSchema[s][i]

\* a current record that carries a stored end date was compiled
C2_Witness ==
    /\ IsCreated
    /\ \E s \in CurrentSections :
          /\ s \in DOMAIN CreatedSchema
          /\ \E i \in DOMAIN CreatedSchema[s] :
                /\ RowById(db[s], Created.assoc[s][i]).is_current
                /\ RowById(db[s], Created.assoc[s][i]).end_date # None
                /\ "endDate" \notin DOMAIN CreatedSchema[s][i]

\* the text columns the compiler turns into lists: the section, the stored
\* column, the key of the compiled object, and how the text is read
ListOrStringFields ==
    { [section |-> "workExperience", column |-> "responsibilities", key |-> "responsibilities", kind |-> "freeText"],
      [section |-> "workExperience", column |-> "achievements", key |-> "achievements", kind |-> "freeText"],
      [section |-> "education", column |-> "achievements", key |-> "achievements", kind |-> "freeText"],
      [section |-> "education", column |-> "activities", key |-> "activities", kind |-> "freeText"],
      [section |-> "projects", column |-> "technologies", key |-> "keywords", kind |-> "keyword"],
      [section |-> "skills", column |-> "keywords", key |-> "keywords", kind |-> "skillKeyword"] }

EncodesList(text) == JsonLoads(text).ok /\ JsonLoads(text).isList

\* the list a column's text stands for when decoding is attempted first
DecodedFirst(kind, text) ==
    IF EncodesList(text) THEN JsonLoads(text).list
    ELSE IF kind = "freeText" THEN <<text>> ELSE SplitComma(text)

\* the stored column of the record behind the i-th compiled object of the
\* field's section
FieldOf(f, i) == RowById(db[f.section], Created.assoc[f.section][i])[f.column]

\* C14 as stated: every list-or-string column, skill keywords included, is
\* decoded as a list first and falls back to the single-element list or the
\* comma split
C14_DecodedFirstEverywhere ==
    IsCreated =>
        \A f \in ListOrStringFields :
            f.section \in DOMAIN CreatedSchema =>
                \A i \in DOMAIN CreatedSchema[f.section] :
                    TruthyStr(FieldOf(f, i)) =>
                        /\ f.key \in DOMAIN CreatedSchema[f.section][i]
                        /\ CreatedSchema[f.section][i][f.key] = DecodedFirst(f.kind, FieldOf(f, i)[1])

\* C14: responsibilities, achievements, activities and project technologies
\* are decoded as a list first and fall back to the single-element list
\* (free text) or the comma split (technologies); skill keywords are always
\* the comma split of the stored text, with no decoding attempt; a non-empty
\* column always yields a list and compilation does not raise on it
C14_DecodedFirstExceptSkillKeywords ==
    IsCreated =>
        \A f \in ListOrStringFields :
            f.section \in DOMAIN CreatedSchema =>
                \A i \in DOMAIN CreatedSchema[f.section] :
                    TruthyStr(FieldOf(f, i)) =>
                        /\ f.key \in DOMAIN CreatedSchema[f.section][i]
                        /\ CreatedSchema[f.section][i][f.key] =
                              IF f.kind = "skillKeyword" THEN SplitComma(FieldOf(f, i)[1])
                              ELSE DecodedFirst(f.kind, FieldOf(f, i)[1])

\* a project whose technologies hold a JSON-encoded list was compiled to the
\* decoded list
C14_Witness ==
    /\ IsCreated
    /\ "projects" \in DOMAIN CreatedSchema
    /\ \E i \in DOMAIN CreatedSchema["projects"] :
          /\ RowById(db.projects, Created.assoc.projects[i]).technologies = Some(JsonListText)
          /\ CreatedSchema["projects"][i]["keywords"] = JsonLoads(JsonListText).list

\* C19: every record associated with a created resume belongs to the
\* requesting user, and every object of the compiled schema is the object of
\* a selected record of that user, whatever ids the request names
C19_OnlyOwnRecordsCompiled ==
    IsCreated =>
        \A s \in Sections :
            /\ \A i \in DOMAIN Created.assoc[s] :
                  RowById(db[s], Created.assoc[s][i]).user_id = req.user_id
            /\ s \in DOMAIN CreatedSchema =>
                  /\ Len(CreatedSchema[s]) = Len(Created.assoc[s])
                  /\ \A i \in DOMAIN CreatedSchema[s] :
                        CreatedSchema[s][i] = SectionObj(s, RowById(db[s], Created.assoc[s][i]))

\* a request naming a record of another user next to one of its own was
\* answered with a resume compiled from the own record
C19_Witness ==
    /\ IsCreated
    /\ \E s \in Sections :
          /\ s \in DOMAIN CreatedSchema
          /\ \E i \in DOMAIN db[s] :
                db[s][i].id \in req.selected[s] /\ db[s][i].user_id # req.user_id

DatedSections == {"workExperience", "education", "certifications"}

\* the record has no value in the date column its compiled object always shows
LacksRequiredDate(s, r) ==
    IF s = "certifications" THEN r.issue_date = None ELSE r.start_date = None

DateKey(s) == IF s = "certifications" THEN "validFrom" ELSE "startDate"

\* C15: a request of an existing user whose selection holds, in an included
\* section, a record without its required date is answered with a created
\* resume, and the object compiled for that record has no date key
C15_MissingRequiredDateDoesNotRaise ==
    (pc = "done" /\ req.format \in ValidFormats /\ QueryUser(db.users, req.user_id) # <<>>) =>
        \A s \in DatedSections :
            (req.include[s] /\ \E r \in NamedRecords(s) : LacksRequiredDate(s, r)) =>
                /\ resp.status = 200
                /\ s \in DOMAIN CreatedSchema
                /\ \A i \in DOMAIN CreatedSchema[s] :
                      LacksRequiredDate(s, RowById(db[s], Created.assoc[s][i]))
                          => DateKey(s) \notin DOMAIN CreatedSchema[s][i]

PlaceFields == {"city", "state", "country"}

\* one of the named columns of the record holds a non-empty text
AnyPresent(r, columns) == \E c \in columns : TruthyStr(r[c])

\* a PostalAddress object with at least one address field
AddressFilled(address) == DOMAIN address \ {"@type"} # {}

LocatedSections == {"workExperience", "education"}

CreatedUser == QueryUser(db.users, req.user_id)[1]

\* C22 as stated: the person block and every work-experience and education
\* object get an address only when city, state or country is present, and
\* an address that is added has at least one address field
C22_AddressOnlyWithCityStateCountry ==
    IsCreated =>
        /\ "address" \in DOMAIN CreatedSchema.person =>
              /\ AnyPresent(CreatedUser, PlaceFields)
              /\ AddressFilled(CreatedSchema.person.address)
        /\ \A s \in LocatedSections :
              s \in DOMAIN CreatedSchema =>
                  \A i \in DOMAIN CreatedSchema[s] :
                      "location" \in DOMAIN CreatedSchema[s][i] =>
                          /\ AnyPresent(RowById(db[s], Created.assoc[s][i]), PlaceFields)
                          /\ AddressFilled(CreatedSchema[s][i].location.address)

\* C22: the person block has an address exactly when city, state, country
\* or postal code is present; a work-experience or education object has a
\* location exactly when city, state or country is present; an address that
\* is added has at least one address field
C22_AddressOnlyWithAnAddressField ==
    IsCreated =>
        /\ "address" \in DOMAIN CreatedSchema.person
              <=> AnyPresent(CreatedUser, PlaceFields \cup {"postal_code"})
        /\ "address" \in DOMAIN CreatedSchema.person => AddressFilled(CreatedSchema.person.address)
        /\ \A s \in LocatedSections :
              s \in DOMAIN CreatedSchema =>
                  \A i \in DOMAIN CreatedSchema[s] :
                      /\ "location" \in DOMAIN CreatedSchema[s][i]
                            <=> AnyPresent(RowById(db[s], Created.assoc[s][i]), PlaceFields)
                      /\ "location" \in DOMAIN CreatedSchema[s][i]
                            => AddressFilled(CreatedSchema[s][i].location.address)

\* a user with nothing but a postal code got an address holding it, next to
\* an entry compiled with a location and one compiled without
C22_Witness ==
    /\ IsCreated
    /\ ~AnyPresent(CreatedUser, PlaceFields)
    /\ "address" \in DOMAIN CreatedSchema.person
    /\ DOMAIN CreatedSchema.person.address = {"@type", "postalCode"}
    /\ \E s \in LocatedSections :
          s \in DOMAIN CreatedSchema /\ \E i \in DOMAIN CreatedSchema[s] :
              "location" \in DOMAIN CreatedSchema[s][i]

\* the number of the named columns of the record that hold a non-empty text
RECURSIVE CountPresent(_, _)
CountPresent(r, columns) ==
    IF columns = {} THEN 0
    ELSE LET c == CHOOSE x \in columns : TRUE
         IN  (IF TruthyStr(r[c]) THEN 1 ELSE 0) + CountPresent(r, columns \ {c})

\* the person block's sameAs has exactly one profile-page object for each
\* present link among the columns, and nothing else; it is absent when none
\* of them is present
SameAsCovers(columns) ==
    LET person == CreatedSchema.person
    IN  /\ "sameAs" \in DOMAIN person <=> AnyPresent(CreatedUser, columns)
        /\ "sameAs" \in DOMAIN person =>
              /\ Len(person.sameAs) = CountPresent(CreatedUser, columns)
              /\ \A i \in DOMAIN person.sameAs : person.sameAs[i]["@type"] = Some("ProfilePage")
              /\ \A c \in columns :
                    TruthyStr(CreatedUser[c]) =>
                        Cardinality({i \in DOMAIN person.sameAs : person.sameAs[i].url = CreatedUser[c]}) = 1

\* C23 as stated: sameAs lists one profile page for each present link among
\* website, LinkedIn, GitHub and Twitter
C23_SameAsListsWebsiteAndProfiles ==
    IsCreated => SameAsCovers({"website", "linkedin", "github", "twitter"})

\* C23: sameAs lists one profile page for each present link among LinkedIn,
\* GitHub and Twitter and is present exactly when one of the three is; the
\* website is the person's url and has no profile page in sameAs
C23_SameAsListsProfilesOnly ==
    IsCreated =>
        /\ SameAsCovers({"linkedin", "github", "twitter"})
        /\ "url" \in DOMAIN CreatedSchema.person <=> TruthyStr(CreatedUser.website)
        /\ TruthyStr(CreatedUser.website) => CreatedSchema.person.url = CreatedUser.website

\* a user with a website and a LinkedIn link was compiled with one profile
\* page
C23_Witness ==
    /\ IsCreated
    /\ TruthyStr(CreatedUser.website) /\ TruthyStr(CreatedUser.linkedin)
    /\ "sameAs" \in DOMAIN CreatedSchema.person
    /\ Len(CreatedSchema.person.sameAs) = 1

\* the optional columns of a skill and the keys of the skill object that
\* show them
SkillOptionalFields ==
    { [column |-> "category", key |-> "termCode"],
      [column |-> "experience_level", key |-> "competencyLevel"],
      [column |-> "years_of_experience", key |-> "experienceYears"],
      [column |-> "keywords", key |-> "keywords"] }

\* C24: every compiled skill object has the key of an optional column
\* exactly when the skill record has a value in that column, each column on
\* its own; a recorded value is emitted as it is, years 0 included
C24_SkillFieldsPresentIffRecorded ==
    (IsCreated /\ "skills" \in DOMAIN CreatedSchema) =>
        \A i \in DOMAIN CreatedSchema.skills :
            \A f \in SkillOptionalFields :
                LET skill == RowById(db.skills, Created.assoc.skills[i])
                IN  f.key \in DOMAIN CreatedSchema.skills[i] <=> skill[f.column] # None

\* the request got past add and flush and the generator raised afterwards
FailedAfterFlush ==
    /\ pc = "done"
    /\ resp.status = 500
    /\ QueryUser(db.users, req.user_id) # <<>>

\* C28: when create_resume fails after the new row was added and flushed, the
\* stored resumes, with their associations, are exactly those before the request
C28_FailedCreateStoresNothing == FailedAfterFlush => db = Tables

C28_Witness ==
    /\ FailedAfterFlush
    /\ CompileRaises(req.include, SelectedRecords(db, req))
    /\ db.resumes = Tables.resumes

(***************************************************************************)
(* Properties of the score                                                 *)
(***************************************************************************)
\* no deduction check applies to the schema
NothingMissing(schema) ==
    /\ TruthyStr(Get(schema, "@context")) /\ TruthyStr(Get(schema, "@type"))
    /\ TruthyStr(Get(PersonOf(schema), "name")) /\ TruthyStr(Get(PersonOf(schema), "email"))
    /\ TruthyStr(Get(PersonOf(schema), "telephone")) /\ TruthyList(Get(PersonOf(schema), "sameAs"))
    /\ TruthyStr(Get(schema, "description"))
    /\ TruthyList(Get(schema, "skills")) /\ TruthyList(Get(schema, "workExperience"))
    /\ TruthyList(Get(schema, "education"))

\* C3: the score is an integer in 0..100; below 100 the feedback is not
\* empty; at 100, and only then, it is the one positive message; and the
\* score is 100 exactly when no deduction check triggered
C3_ScoreRangeAndFeedback ==
    scoreOut # NoScore =>
        /\ scoreOut.score \in 0..100
        /\ scoreOut.score < 100 => scoreOut.feedback # <<>>
        /\ scoreOut.score = 100 <=> scoreOut.feedback = <<PositiveFeedback>>
        /\ scoreOut.score = 100 <=> NothingMissing(scoreIn)

\* a schema with nothing missing scored 100 with the positive message
C3_Witness ==
    scoreOut # NoScore /\ scoreOut.score = 100 /\ scoreOut.feedback = <<PositiveFeedback>>

\* the messages of the ten deduction checks in their fixed order
FixedCheckOrder ==
    << "Missing schema context", "Missing schema type", "Missing person name",
       "Missing email contact", "Missing phone contact",
       "No professional profiles linked (LinkedIn, GitHub, etc.)",
       "No professional summary included", "No skills listed",
       "No work experience listed", "No education history listed" >>

\* the k-th deduction check applies to the schema
CheckTriggered(k, schema) ==
    CASE k = 1 -> ~TruthyStr(Get(schema, "@context"))
      [] k = 2 -> ~TruthyStr(Get(schema, "@type"))
      [] k = 3 -> ~TruthyStr(Get(PersonOf(schema), "name"))
      [] k = 4 -> ~TruthyStr(Get(PersonOf(schema), "email"))
      [] k = 5 -> ~TruthyStr(Get(PersonOf(schema), "telephone"))
      [] k = 6 -> ~TruthyList(Get(PersonOf(schema), "sameAs"))
      [] k = 7 -> ~TruthyStr(Get(schema, "description"))
      [] k = 8 -> ~TruthyList(Get(schema, "skills"))
      [] k = 9 -> ~TruthyList(Get(schema, "workExperience"))
      [] k = 10 -> ~TruthyList(Get(schema, "education"))

PositionOf(msg) == CHOOSE k \in DOMAIN FixedCheckOrder : FixedCheckOrder[k] = msg

\* the feedback lines that report a deduction
DeductionLines(feedback) == SelectSeq(feedback, LAMBDA line : line # PositiveFeedback)

\* C17: the deduction messages of the feedback are the messages of the
\* triggered checks, each once, in the fixed order of the checks
C17_FeedbackInFixedCheckOrder ==
    scoreOut # NoScore =>
        LET lines == DeductionLines(scoreOut.feedback)
        IN  /\ \A i \in DOMAIN lines : \E k \in DOMAIN FixedCheckOrder : lines[i] = FixedCheckOrder[k]
            /\ \A i, j \in DOMAIN lines : i < j => PositionOf(lines[i]) < PositionOf(lines[j])
            /\ \A k \in DOMAIN FixedCheckOrder :
                  CheckTriggered(k, scoreIn) <=> \E i \in DOMAIN lines : lines[i] = FixedCheckOrder[k]

\* a scored schema triggered the first and the last check and at least one
\* more, but not the email check
C17_Witness ==
    /\ scoreOut # NoScore
    /\ Len(scoreOut.feedback) >= 3
    /\ Head(scoreOut.feedback) = FixedCheckOrder[1]
    /\ scoreOut.feedback[Len(scoreOut.feedback)] = FixedCheckOrder[10]
    /\ ~CheckTriggered(4, scoreIn)

Points(missing, n) == IF missing THEN n ELSE 0

\* the sum of the ten fixed deductions that apply to the schema
FixedDeductions(schema) ==
    Points(~TruthyStr(Get(schema, "@context")), 10) + Points(~TruthyStr(Get(schema, "@type")), 10)
    + Points(~TruthyStr(Get(PersonOf(schema), "name")), 15)
    + Points(~TruthyStr(Get(PersonOf(schema), "email")), 10)
    + Points(~TruthyStr(Get(PersonOf(schema), "telephone")), 5)
    + Points(~TruthyList(Get(PersonOf(schema), "sameAs")), 5)
    + Points(~TruthyStr(Get(schema, "description")), 5)
    + Points(~TruthyList(Get(schema, "skills")), 15)
    + Points(~TruthyList(Get(schema, "workExperience")), 15)
    + Points(~TruthyList(Get(schema, "education")), 10)

\* number of (entry, recommended property) pairs of a section where the
\* entry lacks the property
LackingCount(schema, section) ==
    IF section \in DOMAIN schema
    THEN Cardinality({x \in (DOMAIN schema[section]) \X recommended_properties[section] :
                        x[2] \notin DOMAIN schema[section][x[1]]})
    ELSE 0

\* 2 for each work-experience or education entry for each recommended
\* property the entry lacks
ItemDeductions(schema) ==
    2 * (LackingCount(schema, "workExperience") + LackingCount(schema, "education"))

\* C9 as stated: the stored score is 100 less the fixed and the per-entry
\* deductions, clamped to 0..100
C9_ScoreWithEntryDeductions ==
    IsCreated =>
        Created.ats_score
            = Max(0, Min(100, 100 - (FixedDeductions(CreatedSchema) + ItemDeductions(CreatedSchema))))

\* C9 amended: the stored score is 100 less the uncapped sum of the ten
\* fixed deductions, clamped to 0..100; entries lacking a recommended
\* property cost nothing
C9_ScoreIsFixedDeductionsOnly ==
    IsCreated =>
        Created.ats_score = Max(0, Min(100, 100 - FixedDeductions(CreatedSchema)))

\* a resume whose entries lack recommended properties was stored with the
\* score of the fixed deductions alone
C9_Witness ==
    /\ IsCreated
    /\ ItemDeductions(CreatedSchema) > 0
    /\ FixedDeductions(CreatedSchema) > 0
    /\ Created.ats_score = 100 - FixedDeductions(CreatedSchema)



(***************************************************************************)
(* Properties of the job-analysis pipeline                                 *)
(***************************************************************************)
\* the collaborator calls of the request for operation op, oldest first
CallsOf(op) == SelectSeq(calls, LAMBDA c : c.op = op)

\* the answer cannot be parsed into the structure expected: the request
\* failed, the content is not JSON, or the JSON is an error object
Unparseable(raw) ==
    \/ ~raw.valid
    \/ raw.json.t = "dict" /\ "error" \in DOMAIN raw.json.v

CoverageProduced == "coverage_summary" \in DOMAIN coverage_analysis
GenerationReturned == CallsOf("generate_anti_hallucination_resume") # <<>>
GapsReturned == CallsOf("identify_databank_gaps") # <<>>

ElementsOf(seq) == {seq[i] : i \in DOMAIN seq}

\* C4: every item of the experience_section the generator returns names a
\* company and title pair of a work experience of the databank it was given.
C4_ExperienceTraceable ==
    (GenerationReturned /\ "experience_section" \in DOMAIN resume_result) =>
        \A i \in DOMAIN resume_result.experience_section :
            \E j \in DOMAIN user_databank.work_experiences :
                /\ user_databank.work_experiences[j].company =
                      resume_result.experience_section[i].company
                /\ user_databank.work_experiences[j].title =
                      resume_result.experience_section[i].title

\* C5: every report of the Coverage Validator has a utilization percentage
\* in 0..100 and lists as missing_required only skills the job requires.
C5_UtilizationAndMissingWithinJob ==
    CoverageProduced =>
        /\ coverage_analysis.databank_utilization_percentage \in 0..100
        /\ ElementsOf(coverage_analysis.coverage_summary.skills.missing_required)
              \subseteq ElementsOf(GetList(job_analysis.v, "required_skills"))

\* the collaborator's answer to the coverage call is an error object, is
\* not JSON, is not an object or lacks a field of the report
CoverageAnswerRejected ==
    /\ CallsOf("validate_databank_coverage") # <<>>
    /\ LET raw == CallsOf("validate_databank_coverage")[1].raw
       IN  \/ Unparseable(raw)
           \/ raw.json.t # "dict"
           \/ \E f \in {"coverage_summary", "critical_gaps", "transferable_skills",
                        "databank_utilization_percentage"} : f \notin DOMAIN raw.json.v

\* C6: when the answer to the coverage call cannot be parsed into a report,
\* the validator returns (it does not raise) the fail-closed report: no
\* skill covered, every required and preferred skill of the job missing,
\* requirements not met, no gaps, no transferable skills, utilization 0.
C6_FailClosedReport ==
    CoverageAnswerRejected =>
        /\ CoverageProduced
        /\ coverage_analysis.coverage_summary.skills.covered = 0
        /\ coverage_analysis.coverage_summary.skills.percentage = 0
        /\ coverage_analysis.coverage_summary.skills.missing_required =
              GetList(job_analysis.v, "required_skills")
        /\ coverage_analysis.coverage_summary.skills.missing_preferred =
              GetList(job_analysis.v, "preferred_skills")
        /\ ~coverage_analysis.coverage_summary.experience.meets_requirements
        /\ ~coverage_analysis.coverage_summary.education.meets_requirements
        /\ coverage_analysis.critical_gaps = <<>>
        /\ coverage_analysis.transferable_skills = <<>>
        /\ coverage_analysis.databank_utilization_percentage = 0
        /\ ~(aiPc = "done" /\ aiResp.status = 500 /\ ~GapsReturned)

C6_Witness ==
    /\ CoverageAnswerRejected
    /\ CallsOf("validate_databank_coverage")[1].raw = RawNotJson
    /\ coverage_analysis.coverage_summary.skills.missing_required = <<"Go", "Kubernetes">>
    /\ aiResp.status = 200

\* the answer to requirement extraction did not parse
ExtractionUnparseable ==
    /\ CallsOf("analyze_job_description") # <<>>
    /\ Unparseable(CallsOf("analyze_job_description")[1].raw)

SectionSchemaKeys ==
    {"professional_summary", "skills_section", "experience_section", "education_section",
     "certifications_section", "databank_utilization_report"}

\* C8: the generator returns either an object with the fixed section schema
\* or the safe error object whose utilization report says 0; an answer of
\* another shape is never returned as received.
C8_FixedSchemaOrSafeError ==
    GenerationReturned =>
        \/ SectionSchemaKeys \subseteq DOMAIN resume_result
        \/ /\ "error" \in DOMAIN resume_result
           /\ "databank_utilization_report" \in DOMAIN resume_result
           /\ resume_result.databank_utilization_report.utilization_percentage = 0

PriorityRank(priority) ==
    CASE priority = "high" -> 1 [] priority = "medium" -> 2 [] priority = "low" -> 3 [] OTHER -> 4

CategoryRank(category) ==
    CASE category = "certifications" -> 1 [] category = "education" -> 2
      [] category = "experience" -> 3 [] category = "skills" -> 4 [] OTHER -> 5

\* C10: the list the Gap Recommender returns is ordered by priority, high
\* before medium before low, and within one priority by category, whatever
\* the order in which the collaborator lists the recommendations.
C10_OrderedByPriorityThenCategory ==
    GapsReturned =>
        \A i, j \in DOMAIN gap_recommendations :
            i < j =>
                \/ PriorityRank(gap_recommendations[i].priority) <
                      PriorityRank(gap_recommendations[j].priority)
                \/ /\ gap_recommendations[i].priority = gap_recommendations[j].priority
                   /\ CategoryRank(gap_recommendations[i].category) <=
                         CategoryRank(gap_recommendations[j].category)



\* the fields of the fixed shape of an extraction answer
JobFields ==
    {"job_title", "required_skills", "preferred_skills", "experience_level",
     "education_requirements", "key_responsibilities", "industry", "keywords"}

\* the answer to requirement extraction is a reported error or lacks the
\* fixed shape
ExtractionMalformed ==
    /\ CallsOf("analyze_job_description") # <<>>
    /\ LET raw == CallsOf("analyze_job_description")[1].raw
       IN  \/ Unparseable(raw)
           \/ raw.json.t # "dict"
           \/ ~(JobFields \subseteq DOMAIN raw.json.v)

\* C12: an extraction answer that is a reported error or lacks the fixed
\* shape fails the request: the Coverage Validator, the Gap Recommender and
\* the Content Generator are not invoked with it and no report is built
\* from defaults.
C12_MalformedExtractionIsHardFailure ==
    ExtractionMalformed =>
        /\ CallsOf("validate_databank_coverage") = <<>>
        /\ CallsOf("identify_databank_gaps") = <<>>
        /\ CallsOf("generate_anti_hallucination_resume") = <<>>
        /\ ~CoverageProduced
        /\ aiPc = "done" => aiResp.status = 500

\* the day the requests are served
Today == [year |-> 2024, month |-> 5, day |-> 1]

\* whole years from date a to date b
YearsBetween(a, b) ==
    b.year - a.year - (IF b.month < a.month \/ (b.month = a.month /\ b.day < a.day) THEN 1 ELSE 0)

\* the duration of a work experience: from its start date to its end date,
\* or to the present for a current entry
DurationYears(exp) ==
    IF exp.start_date = None THEN 0
    ELSE YearsBetween(exp.start_date[1],
                      IF exp.is_current \/ exp.end_date = None THEN Today ELSE exp.end_date[1])

RECURSIVE SumDurations(_)
SumDurations(exps) ==
    IF exps = <<>> THEN 0 ELSE DurationYears(Head(exps)) + SumDurations(Tail(exps))

\* requirement extraction answered with an object that is not an error
ExtractionAccepted ==
    /\ CallsOf("analyze_job_description") # <<>>
    /\ job_analysis.t = "dict"
    /\ ~HasError(job_analysis)

\* C13: once requirement extraction has succeeded, the Coverage Validator
\* is given the user's databank, and the experience years it computes from
\* it (and reports as user_years in the fail-closed report) equal the sum
\* of the durations of the user's work experiences.
C13_ExperienceYearsAreSummedDurations ==
    ExtractionAccepted =>
        /\ "work_experiences" \in DOMAIN user_databank
        /\ SumYears(user_databank.work_experiences) =
              SumDurations(OwnedBy(db.workExperience, aiReq.user_id))
        /\ CoverageAnswerRejected =>
              coverage_analysis.coverage_summary.experience.user_years =
                 SumDurations(OwnedBy(db.workExperience, aiReq.user_id))

CollaboratorOperations ==
    {"analyze_job_description", "validate_databank_coverage", "identify_databank_gaps",
     "generate_anti_hallucination_resume"}

\* the one request of the operation met a transport failure or an error
\* status
TransportFailed(op) ==
    /\ CallsOf(op) # <<>>
    /\ CallsOf(op)[1].raw.kind \in {"exception", "status"}

\* C25: every collaborator-backed operation issues at most one request in a
\* handler run, and a request that met a transport failure or an error
\* status shows in what the operation hands back: an error object from
\* requirement extraction and from generation, the fail-closed report from
\* coverage validation, and no successful answer from gap recommendation
C25_OneRequestAndFailureSurfaced ==
    /\ \A op \in CollaboratorOperations : Len(CallsOf(op)) <= 1
    /\ TransportFailed("analyze_job_description") => HasError(job_analysis)
    /\ TransportFailed("validate_databank_coverage") =>
          coverage_analysis = FailClosedCoverage(job_analysis.v, user_databank)
    /\ TransportFailed("generate_anti_hallucination_resume") => "error" \in DOMAIN resume_result
    /\ (TransportFailed("identify_databank_gaps") /\ aiPc = "done"
          /\ aiReq.endpoint = "suggest-databank-enhancements") => aiResp.status # 200

PipelineOrder ==
    << "analyze_job_description", "validate_databank_coverage", "identify_databank_gaps",
       "generate_anti_hallucination_resume" >>

\* C26: the collaborator-backed steps of a request run in the order
\* extraction, coverage validation, gap recommendation, generation, with
\* the databank built before coverage validation; the generator is invoked
\* only after a coverage report was produced in the request, and it is
\* given that report and the databank built in the request
C26_GenerationAfterCoverageOnSameInputs ==
    /\ Len(calls) <= Len(PipelineOrder)
    /\ \A n \in DOMAIN calls : calls[n].op = PipelineOrder[n]
    /\ CallsOf("validate_databank_coverage") # <<>> =>
          user_databank = _get_complete_user_databank(CurrentUser, db)
    /\ GenerationReturned =>
          /\ CoverageProduced
          /\ CallsOf("generate_anti_hallucination_resume")[1].args.coverage_analysis = coverage_analysis
          /\ CallsOf("generate_anti_hallucination_resume")[1].args.user_databank =
                _get_complete_user_databank(CurrentUser, db)

\* a request ran all four steps and was answered with a generated resume
C26_Witness ==
    /\ GenerationReturned
    /\ Len(calls) = 4
    /\ aiPc = "done" /\ aiResp.status = 200

\* the request is answered and its user has no key for the preferred provider
AnsweredWithoutKey ==
    /\ aiPc = "done"
    /\ ~TruthyStr(ApiKeyOf(CurrentUser))

\* C29: a request of a user without an API key for the preferred provider is
\* rejected with status 400 and no request to the collaborator was made
C29_NoKeyRejectedWith400 ==
    AnsweredWithoutKey => (aiResp.status = 400 /\ calls = <<>>)

(***************************************************************************)
(* Properties of the profile operations                                    *)
(***************************************************************************)
\* C11: after any sequence of create and update operations, every stored
\* work experience and education that is current has no end date.
C11_CurrentImpliesNoEndDate ==
    \A table \in {"workExperience", "education"} :
        \A i \in DOMAIN db[table] : db[table][i].is_current => db[table][i].end_date = None

\* the stored artifact of a resume row
ArtifactOf(row) ==
    [schema_jsonld |-> row.schema_jsonld, content |-> row.content,
     ats_score |-> row.ats_score, ats_feedback |-> row.ats_feedback]

ArtifactsKept ==
    \A n \in DOMAIN db.resumes :
        n \in DOMAIN db'.resumes /\ ArtifactOf(db'.resumes[n]) = ArtifactOf(db.resumes[n])

\* C20: no create, update or delete of a profile record and no update of
\* the identity fields changes the schema, content, score or feedback of a
\* resume that already exists
C20_ArtifactUnchangedByProfileEdits == [][ArtifactsKept]_vars

\* a resume exists whose stored schema is no longer what its user, flags
\* and selected ids compile to: a record or identity field behind it was
\* edited after the resume was created
C20_Witness ==
    /\ IsCreated
    /\ recLog # <<>>
    /\ recLog[Len(recLog)].status \in {200, 204}
    /\ ~CompileRaises(req.include, SelectedRecords(db, req))
    /\ CreatedSchema # generate_jsonld_schema(QueryUser(db.users, req.user_id)[1], Created,
                                              req.include, SelectedRecords(db, req))

\* no two skills of one user carry the same name
SkillNamesUnique ==
    \A i, j \in DOMAIN db.skills :
        (i # j /\ db.skills[i].user_id = db.skills[j].user_id)
            => db.skills[i].name # db.skills[j].name

\* the skill request served by this step, if any
SkillRequestServed ==
    /\ Len(recLog') = Len(recLog) + 1
    /\ recLog'[Len(recLog')].op \in {"create_skill", "update_skill"}

\* C21: skill names stay unique per user through every create_skill and
\* update_skill, and a request answered with a conflict leaves every table
\* as it was
C21_SkillNamesUniquePerUser ==
    /\ SkillNamesUnique
    /\ [][/\ SkillNamesUnique'
          /\ (SkillRequestServed /\ recLog'[Len(recLog')].status = 409) => db' = db]_vars

\* a create or rename was refused with a conflict while two different users
\* hold a skill of the same name
C21_Witness ==
    /\ \E n \in DOMAIN recLog :
          recLog[n].op \in {"create_skill", "update_skill"} /\ recLog[n].status = 409
    /\ \E i, j \in DOMAIN db.skills :
          db.skills[i].user_id # db.skills[j].user_id /\ db.skills[i].name = db.skills[j].name


(***************************************************************************)
(* Properties of create_skill requests served at the same time             *)
(***************************************************************************)
\* both requests are answered, and they named the same skill of the same user
SameSkillRaced ==
    /\ inflight # <<>>
    /\ \A n \in Racers : inflight[n].at = "done"
    /\ inflight[1].user_id = inflight[2].user_id
    /\ inflight[1].skill_in.name = inflight[2].skill_in.name

\* C27: when two create_skill requests of one user with one name are served at
\* the same time, at most one of them is answered 201 and the user ends with
\* exactly one skill of that name
C27_ConcurrentCreateKeepsOneSkill ==
    SameSkillRaced =>
        /\ Cardinality({n \in Racers : inflight[n].status = 201}) <= 1
        /\ Cardinality(SkillsNamed(db.skills, inflight[1].skill_in.name,
                                   inflight[1].user_id)) = 1


(***************************************************************************)
(* Properties of the validator                                             *)
(***************************************************************************)
\* the call of validate_schema has ended, by returning or by raising
Validated == validation # NoValidation

\* C30: validate_schema never raises and returns a score from 0 to 100 for
\* every text; a text that is not JSON gets score 0, the one critical issue
\* "Invalid JSON-LD schema" and no recommendations
C30_ValidatorAlwaysReturns ==
    Validated =>
        /\ ~validation[1].raised
        /\ validation[1].score \in 0..100
        /\ ~schema_json.valid =>
               validation[1] = Returned(0, <<<<"Invalid JSON-LD schema">>>>, <<>>)

\* a call that returns gives a score from 0 to 100, and 0 with the one
\* critical issue for a text that is not JSON
ReturnedScoreInRange ==
    (Validated /\ ~validation[1].raised) =>
        /\ validation[1].score \in 0..100
        /\ ~schema_json.valid =>
               validation[1] = Returned(0, <<<<"Invalid JSON-LD schema">>>>, <<>>)

====
